---- MODULE Spec2Model ----
(***************************************************************************)
(* Conversation orchestration of Fit Buddy: ConversationalAIService        *)
(* (processMessage and its sub-flows), OnboardingService (the onboarding   *)
(* state machine and its extractors) and the parts of UserService and the  *)
(* validation schemas they call.                                           *)
(*                                                                         *)
(* Text is modelled as a sequence of one-character strings so that         *)
(* toLowerCase, trim, includes and the regular expressions of the source   *)
(* are computed on the characters of a message.                            *)
(***************************************************************************)
EXTENDS Integers, Sequences, FiniteSets, TLC

\* ------------------------------------------------------------------------
\* JavaScript string primitives used by the services.

UpperLetters == <<"A","B","C","D","E","F","G","H","I","J","K","L","M",
                  "N","O","P","Q","R","S","T","U","V","W","X","Y","Z">>
LowerLetters == <<"a","b","c","d","e","f","g","h","i","j","k","l","m",
                  "n","o","p","q","r","s","t","u","v","w","x","y","z">>
Digits == <<"0","1","2","3","4","5","6","7","8","9">>

IsUpper(c) == \E i \in 1..26 : UpperLetters[i] = c
IsLower(c) == \E i \in 1..26 : LowerLetters[i] = c
IsDigit(c) == \E i \in 1..10 : Digits[i] = c
IsSpace(c) == c = " "
\* \w of a JavaScript regular expression
IsWordChar(c) == IsUpper(c) \/ IsLower(c) \/ IsDigit(c) \/ c = "_"

LowerChar(c) ==
  IF IsUpper(c) THEN LowerLetters[CHOOSE i \in 1..26 : UpperLetters[i] = c] ELSE c
UpperChar(c) ==
  IF IsLower(c) THEN UpperLetters[CHOOSE i \in 1..26 : LowerLetters[i] = c] ELSE c
DigitVal(c) == (CHOOSE i \in 1..10 : Digits[i] = c) - 1

toLowerCase(s) == [i \in 1..Len(s) |-> LowerChar(s[i])]

\* String.prototype.trim
trim(s) ==
  LET idx == {i \in 1..Len(s) : ~IsSpace(s[i])}
  IN IF idx = {} THEN <<>>
     ELSE LET lo == CHOOSE i \in idx : \A j \in idx : i <= j
              hi == CHOOSE i \in idx : \A j \in idx : j <= i
          IN SubSeq(s, lo, hi)

\* sub occurs in s starting at position i
StartsAt(s, i, sub) ==
  /\ i >= 1
  /\ i + Len(sub) - 1 <= Len(s)
  /\ SubSeq(s, i, i + Len(sub) - 1) = sub

\* String.prototype.includes
includes(s, sub) == \E i \in 1..(Len(s) + 1) : StartsAt(s, i, sub)

\* Array.prototype.includes on a list of literals
oneOf(s, list) == \E k \in 1..Len(list) : list[k] = s

\* position after the run of \s* that starts at i
RECURSIVE SkipSpaces(_, _)
SkipSpaces(s, i) ==
  IF i <= Len(s) /\ IsSpace(s[i]) THEN SkipSpaces(s, i + 1) ELSE i

\* position after the run of \d* that starts at i
RECURSIVE SkipDigits(_, _)
SkipDigits(s, i) ==
  IF i <= Len(s) /\ IsDigit(s[i]) THEN SkipDigits(s, i + 1) ELSE i

\* parseInt / parseFloat of the digits s[i..j-1]
RECURSIVE DigitsValue(_, _, _)
DigitsValue(s, i, j) ==
  IF j <= i THEN 0 ELSE DigitsValue(s, i, j - 1) * 10 + DigitVal(s[j - 1])

\* the least element of a non-empty set of positions
MinOf(set) == CHOOSE i \in set : \A j \in set : i <= j

\* decimal digits of a natural number (Number.prototype.toString)
RECURSIVE NatToChars(_)
NatToChars(n) ==
  IF n < 10 THEN <<Digits[n + 1]>> ELSE NatToChars(n \div 10) \o <<Digits[(n % 10) + 1]>>

\* ------------------------------------------------------------------------
\* OnboardingService: extractors.  A string result of null is <<>>, a
\* numeric result of null is 0 (the callers test both with "!value").
\* The inputs of the model hold no decimal point, so the optional fraction
\* (?:\.\d+)? of the number patterns matches nothing.

\* positions where a run of digits starts that is followed, after optional
\* white space, by one of the unit literals:  (\d+)\s*(?:u1|u2|...)
NumberBeforeUnit(s, units) ==
  {i \in 1..Len(s) :
      /\ IsDigit(s[i])
      /\ \E k \in 1..Len(units) :
            StartsAt(s, SkipSpaces(s, SkipDigits(s, i)), units[k])}

\* the first run of digits of s: s.match(/(\d+)/), 0 positions if none
FirstNumberAt(s) ==
  LET ds == {i \in 1..Len(s) : IsDigit(s[i])} IN IF ds = {} THEN 0 ELSE MinOf(ds)

extractName(input) ==
  LET cleaned  == trim(input)
      lower    == toLowerCase(cleaned)
      prefixes == <<<<"m","y"," ","n","a","m","e"," ","i","s">>, <<"i","'","m">>, <<"i"," ","a","m">>, <<"c","a","l","l"," ","m","e">>, <<"i","t","'","s">>, <<"i","t"," ","i","s">>>>
      \* ^(...)\s+ : a prefix followed by at least one white-space character
      hit      == {k \in 1..Len(prefixes) :
                      /\ StartsAt(lower, 1, prefixes[k])
                      /\ Len(lower) > Len(prefixes[k])
                      /\ IsSpace(lower[Len(prefixes[k]) + 1])}
      name     == IF hit = {} THEN cleaned
                  ELSE LET k == MinOf(hit)
                       IN trim(SubSeq(cleaned,
                                      SkipSpaces(cleaned, Len(prefixes[k]) + 1),
                                      Len(cleaned)))
  IN IF Len(cleaned) < 2 THEN <<>> ELSE name

parseYesNo(input) ==
  LET lower == trim(toLowerCase(input))
  IN IF oneOf(lower, <<<<"y","e","s">>, <<"y">>, <<"y","e","a","h">>, <<"y","e","p">>, <<"s","u","r","e">>, <<"o","k">>,
                       <<"o","k","a","y">>, <<"c","o","r","r","e","c","t">>, <<"r","i","g","h","t">>, <<"t","r","u","e">>>>)
       THEN "true"
     ELSE IF oneOf(lower, <<<<"n","o">>, <<"n">>, <<"n","o","p","e">>, <<"n","a","h">>, <<"w","r","o","n","g">>,
                            <<"i","n","c","o","r","r","e","c","t">>, <<"f","a","l","s","e">>>>)
       THEN "false"
     ELSE "null"

\* every branch after the emptiness test returns input.trim()
extractTime(input) ==
  LET cleaned == toLowerCase(trim(input))
  IN IF Len(cleaned) = 0 THEN <<>> ELSE trim(input)

\* Math.round(feet * 30.48 + inches * 2.54)
FeetInchesToCm(feet, inches) == (feet * 3048 + inches * 254 + 50) \div 100
\* Math.round(pounds * 0.453592)
PoundsToKg(pounds) == (pounds * 453592 + 500000) \div 1000000

extractHeight(input) ==
  LET cleaned == trim(toLowerCase(input))
      cm      == NumberBeforeUnit(cleaned, <<<<"c","m">>>>)
      ftUnits == <<<<"f","e","e","t">>, <<"f","t">>, <<"'">>>>
      ft      == NumberBeforeUnit(cleaned, ftUnits)
      n       == FirstNumberAt(cleaned)
  IN IF cm # {} THEN
       LET i == MinOf(cm) IN DigitsValue(cleaned, i, SkipDigits(cleaned, i))
     ELSE IF ft # {} THEN
       LET i    == MinOf(ft)
           j    == SkipSpaces(cleaned, SkipDigits(cleaned, i))
           unit == ftUnits[MinOf({k \in 1..3 : StartsAt(cleaned, j, ftUnits[k])})]
           q    == SkipSpaces(cleaned, j + Len(unit))
           feet == DigitsValue(cleaned, i, SkipDigits(cleaned, i))
           inch == DigitsValue(cleaned, q, SkipDigits(cleaned, q))
       IN FeetInchesToCm(feet, inch)
     ELSE IF n # 0 THEN
       LET num == DigitsValue(cleaned, n, SkipDigits(cleaned, n))
       IN IF num > 100 THEN num
          ELSE IF num < 8 THEN FeetInchesToCm(num, 0)
          ELSE 0
     ELSE 0

extractWeight(input) ==
  LET cleaned == trim(toLowerCase(input))
      kg      == NumberBeforeUnit(cleaned, <<<<"k","g">>>>)
      lbs     == NumberBeforeUnit(cleaned, <<<<"l","b">>, <<"p","o","u","n","d">>>>)
      n       == FirstNumberAt(cleaned)
  IN IF kg # {} THEN
       LET i == MinOf(kg) IN DigitsValue(cleaned, i, SkipDigits(cleaned, i))
     ELSE IF lbs # {} THEN
       LET i == MinOf(lbs) IN PoundsToKg(DigitsValue(cleaned, i, SkipDigits(cleaned, i)))
     ELSE IF n # 0 THEN
       LET num == DigitsValue(cleaned, n, SkipDigits(cleaned, n))
       IN IF num > 30 /\ num < 200 THEN num
          ELSE IF num > 60 /\ num < 500 THEN PoundsToKg(num)
          ELSE 0
     ELSE 0

extractTrainingPhilosophy(input) ==
  LET lower == trim(toLowerCase(input))
  IN IF \/ includes(lower, <<"1">>) \/ includes(lower, <<"a","r","n","o","l","d">>)
        \/ includes(lower, <<"v","o","l","u","m","e">>) \/ includes(lower, <<"h","i","g","h"," ","v","o","l","u","m","e">>)
       THEN "arnold"
     ELSE IF \/ includes(lower, <<"2">>) \/ includes(lower, <<"m","e","n","t","z","e","r">>)
             \/ includes(lower, <<"i","n","t","e","n","s","i","t","y">>) \/ includes(lower, <<"h","i","g","h"," ","i","n","t","e","n","s","i","t","y">>)
       THEN "mentzer"
     ELSE IF \/ includes(lower, <<"3">>) \/ includes(lower, <<"n","o","t"," ","s","u","r","e">>)
             \/ includes(lower, <<"b","a","l","a","n","c","e","d">>) \/ includes(lower, <<"m","i","x">>)
             \/ includes(lower, <<"b","o","t","h">>)
       THEN "custom"
     ELSE "null"

extractPlanType(input) ==
  LET lower == trim(toLowerCase(input))
  IN IF \/ includes(lower, <<"3">>) \/ includes(lower, <<"t","h","r","e","e">>)
        \/ includes(lower, <<"3"," ","d","a","y">>)
       THEN "3"
     ELSE IF \/ includes(lower, <<"6">>) \/ includes(lower, <<"s","i","x">>)
             \/ includes(lower, <<"w","e","e","k">>) \/ includes(lower, <<"1"," ","w","e","e","k">>)
             \/ includes(lower, <<"f","u","l","l"," ","w","e","e","k">>)
       THEN "6"
     ELSE "null"

\* a time window; start and end are "HH:00" strings, kept as the hour
Slot(startHour, endHour) == [start |-> startHour, end |-> endHour]

\* OnboardingService.parseGymTime
parseGymTime(timeStr) ==
  LET lower == toLowerCase(timeStr)
  IN IF includes(lower, <<"m","o","r","n","i","n","g">>) \/ includes(lower, <<"a","m">>)
       THEN <<Slot(6, 10)>>
     ELSE IF includes(lower, <<"a","f","t","e","r","n","o","o","n">>)
       THEN <<Slot(12, 16)>>
     ELSE IF \/ includes(lower, <<"e","v","e","n","i","n","g">>) \/ includes(lower, <<"n","i","g","h","t">>)
             \/ includes(lower, <<"p","m">>)
       THEN <<Slot(17, 21)>>
     ELSE IF includes(lower, <<"a","f","t","e","r"," ","w","o","r","k">>)
       THEN <<Slot(17, 20)>>
     ELSE <<Slot(18, 20)>>

\* calculateBMI, in tenths: Math.round(weight / (height/100)^2 * 10)
calculateBMI(weight, height) ==
  IF height = 0 THEN 1000000   \* division by zero gives Infinity
  ELSE (2 * weight * 100000 + height * height) \div (2 * height * height)

\* ------------------------------------------------------------------------
\* The texts of the model.

OnboardingSteps ==
  {"name", "has_timetable", "current_timetable", "gym_time", "height", "weight",
   "training_philosophy", "suggest_timetable", "confirm_schedule"}

\* what the client of the model answers at each onboarding step
Answers(step) ==
  CASE step = "name"                -> {<<"J","o","h","n">>, <<"I","'","m"," ","a","t"," ","t","h","e"," ","g","y","m">>, <<"1">>, <<" ">>}
    [] step = "has_timetable"       -> {<<"y","e","s">>, <<"n","o">>, <<"m","a","y","b","e">>, <<"m","y"," ","g","y","m"," ","t","i","m","e"," ","i","s"," ","7"," ","p","m">>}
    [] step = "current_timetable"   -> {<<"M","o","n","d","a","y"," ","W","e","d","n","e","s","d","a","y"," ","F","r","i","d","a","y">>, <<"h","i">>}
    [] step = "gym_time"            -> {<<"e","v","e","n","i","n","g">>, <<"6"," ","A","M">>, <<" ">>, <<"7">>}
    [] step = "height"              -> {<<"1","7","5"," ","c","m">>, <<"5"," ","f","e","e","t"," ","9"," ","i","n","c","h","e","s">>, <<"t","a","l","l">>, <<"3","0","0"," ","c","m">>}
    [] step = "weight"              -> {<<"7","0"," ","k","g">>, <<"1","5","4"," ","l","b","s">>, <<"t","a","l","l">>, <<"2","0"," ","k","g">>}
    [] step = "training_philosophy" -> {<<"1">>, <<"m","e","n","t","z","e","r">>, <<"h","i">>}
    [] step = "suggest_timetable"   -> {<<"3"," ","d","a","y","s">>, <<"1"," ","w","e","e","k">>, <<"h","i">>}
    [] step = "confirm_schedule"    -> {<<"y","e","s">>, <<"n","o">>, <<"m","a","y","b","e">>, <<"I","'","m"," ","a","t"," ","t","h","e"," ","g","y","m">>}
    [] OTHER                        -> {<<"h","i">>}

\* what a client without onboarding state says
ChatMessages ==
  {<<"h","e","l","l","o">>, <<"I","'","m"," ","a","t"," ","t","h","e"," ","g","y","m">>, <<"m","y"," ","g","y","m"," ","t","i","m","e"," ","i","s"," ","7"," ","p","m">>, <<"w","h","a","t"," ","i","s"," ","m","y"," ","s","c","h","e","d","u","l","e">>,
   <<"i"," ","c","h","a","n","g","e","d"," ","t","o"," ","e","v","e","n","i","n","g">>, <<"s","q","u","a","t">>, <<"b","e","n","c","h"," ","p","r","e","s","s"," ","3"," ","s","e","t","s"," ","o","f"," ","1","0"," ","r","e","p","s">>,
   <<"w","h","a","t"," ","s","h","o","u","l","d"," ","i"," ","e","a","t">>, <<"y","e","s">>, <<"n","o">>,
   <<"i"," ","c","h","a","n","g","e","d"," ","t","o"," ","7">>, <<"u","p","d","a","t","e">>,
   <<"3"," ","s","e","t","s"," ","o","f"," ","1","0"," ","r","e","p","s">>, <<"f","i","n","d"," ","a"," ","g","y","m">>,
   <<"s","q","u","a","t"," ","3","x","1","0">>}

NewcomerMessages == {<<"h","i">>, <<"J","o","h","n">>, <<"I","'","m"," ","a","t"," ","t","h","e"," ","g","y","m">>, <<"y","e","s">>}

AllInputs == UNION {Answers(step) : step \in OnboardingSteps}
               \cup ChatMessages \cup NewcomerMessages

\* every text a service function is applied to: the messages and what the
\* services store of them (input.trim(), '')
Texts == AllInputs \cup {trim(m) : m \in AllInputs} \cup {<<>>}

\* the OnboardingService extractors on every text, computed once
Onboarding ==
  [t \in Texts |->
     [trim                      |-> trim(t),
      extractName               |-> extractName(t),
      parseYesNo                |-> parseYesNo(t),
      extractTime               |-> extractTime(t),
      extractHeight             |-> extractHeight(t),
      extractWeight             |-> extractWeight(t),
      extractTrainingPhilosophy |-> extractTrainingPhilosophy(t),
      extractPlanType           |-> extractPlanType(t),
      parseGymTime              |-> parseGymTime(t)]]

\* ------------------------------------------------------------------------
\* Identities.  ObjectId.isValid is the driver's format test; the model
\* keeps it as membership in the set of well-formed internal ids.

TelegramIds == {"tg1"}
ObjectIds   == {"oid1", "oid2", "oid9"}
\* ids that insertOne hands out, in order
FreshIds    == <<"oid2">>

\* a variant that takes no id for an internal id
ObjectIdIsValidNever(id) == FALSE

\* ObjectId.isValid(userId)
ObjectIdIsValid(id) == id \in ObjectIds

\* ------------------------------------------------------------------------
\* validation.ts: the Joi schemas.  The fields the services always set to a
\* constant that passes (age 25, fitnessGoal, experienceLevel,
\* preferredWorkoutDuration 60, preferences) are left out of the records.

validateUserProfile(profile) ==
  /\ Len(profile.name) >= 1 /\ Len(profile.name) <= 100
  /\ profile.height >= 100 /\ profile.height <= 250
  /\ profile.weight >= 30 /\ profile.weight <= 300
  /\ profile.bmi >= 100 /\ profile.bmi <= 500          \* tenths: 10..50
  /\ profile.trainingPhilosophy \in {"mentzer", "arnold", "custom"}

\* start and end match /^([01]?[0-9]|2[0-3]):[0-5][0-9]$/ ; the services
\* only build "HH:00" with HH the two-digit (or longer) decimal hour
validTimeString(hour) == hour >= 0 /\ hour <= 23

validateUserSchedule(schedule) ==
  /\ Len(schedule.workDays) <= 7
  /\ \A i \in 1..Len(schedule.availableHours) :
        /\ validTimeString(schedule.availableHours[i].start)
        /\ validTimeString(schedule.availableHours[i].end)
  /\ schedule.workoutDaysPerWeek >= 1 /\ schedule.workoutDaysPerWeek <= 7

\* ------------------------------------------------------------------------
\* UserService over the users collection.  A collection access throws when
\* the database is not connected (DatabaseConnection.getSchemas) and when
\* the driver call named by "fault" rejects.

NoUser == [id |-> "none", telegramId |-> "none"]

\* get usersCollection(): database.getSchemas() answers while the database
\* is connected; under "users.stub" the service is a stand-in that answers
\* without the database (the injected user service of the test suites)
UsersAnswer(connected, fault) == connected \/ fault = "users.stub"

\* usersCollection.findOne({telegramId}) / findOne({_id})
FindByTelegramId(us, tid) == {u \in us : u.telegramId = tid}
FindById(us, id) == {u \in us : u.id = id}

getUserByTelegramId(us, connected, fault, telegramId) ==
  LET found == FindByTelegramId(us, telegramId)
  IN IF ~UsersAnswer(connected, fault) \/ fault = "users.find" \/ found = {}
       THEN [success |-> FALSE, data |-> NoUser]
       ELSE [success |-> TRUE, data |-> CHOOSE u \in found : TRUE]

getUserById(us, connected, fault, userId) ==
  LET found == FindById(us, userId)
  IN IF ~ObjectIdIsValid(userId) \/ ~UsersAnswer(connected, fault) \/ fault = "users.find" \/ found = {}
       THEN [success |-> FALSE, data |-> NoUser]
       ELSE [success |-> TRUE, data |-> CHOOSE u \in found : TRUE]

\* the _id insertOne gives the next document
NextFreshId(us) ==
  FreshIds[MinOf({k \in 1..Len(FreshIds) : FindById(us, FreshIds[k]) = {}})]

\* createUser: validation, then insertOne under the unique sparse index on
\* telegramId.  Result: success and the collection afterwards.
createUser(us, connected, fault, userData) ==
  LET profile == [userData.profile EXCEPT
                    !.bmi = IF userData.profile.height # 0 /\ userData.profile.weight # 0
                              THEN calculateBMI(userData.profile.weight, userData.profile.height)
                              ELSE @]
      ok == /\ validateUserProfile(profile)
            /\ validateUserSchedule(userData.schedule)
            /\ UsersAnswer(connected, fault)
            /\ fault # "users.insert"
            /\ FindByTelegramId(us, userData.telegramId) = {}
  IN IF ok
       THEN [success |-> TRUE,
             users   |-> us \cup {[id         |-> NextFreshId(us),
                                   telegramId |-> userData.telegramId,
                                   profile    |-> profile,
                                   schedule   |-> userData.schedule]}]
       ELSE [success |-> FALSE, users |-> us]

\* ------------------------------------------------------------------------
\* OnboardingService: the state machine.

EmptyData ==
  [name               |-> <<>>,
   hasTimetable       |-> "unset",
   currentTimetable   |-> <<>>,
   gymTime            |-> <<>>,
   height             |-> 0,
   weight             |-> 0,
   bmi                |-> 0,
   trainingPhilosophy |-> "unset",
   suggestedTimetable |-> "unset",
   workoutDaysPerWeek |-> 0]

NoOnboarding == [present |-> FALSE, step |-> "none", data |-> EmptyData]
OnbState(step, data) == [present |-> TRUE, step |-> step, data |-> data]

WeekDays == <<<<"m","o","n","d","a","y">>, <<"t","u","e","s","d","a","y">>, <<"w","e","d","n","e","s","d","a","y">>, <<"t","h","u","r","s","d","a","y">>,
              <<"f","r","i","d","a","y">>, <<"s","a","t","u","r","d","a","y">>, <<"s","u","n","d","a","y">>>>

\* the matches of /\b(monday|...|sunday)\b/gi : the maximal runs of word
\* characters that spell a weekday, as their start positions
WeekdayMatches(text) ==
  LET lower == toLowerCase(text)
  IN {i \in 1..Len(text) :
        /\ (i = 1 \/ ~IsWordChar(lower[i - 1]))
        /\ \E d \in 1..7 :
              /\ StartsAt(lower, i, WeekDays[d])
              /\ (i + Len(WeekDays[d]) > Len(lower)
                    \/ ~IsWordChar(lower[i + Len(WeekDays[d])]))}

\* d.charAt(0).toUpperCase() + d.slice(1).toLowerCase() of the match at i
RECURSIVE WordEnd(_, _)
WordEnd(s, i) == IF i <= Len(s) /\ IsWordChar(s[i]) THEN WordEnd(s, i + 1) ELSE i
Capitalized(text, i) ==
  LET w == toLowerCase(SubSeq(text, i, WordEnd(text, i) - 1))
  IN <<UpperChar(w[1])>> \o Tail(w)

RECURSIVE SortedSeq(_)
SortedSeq(set) ==
  IF set = {} THEN <<>> ELSE <<MinOf(set)>> \o SortedSeq(set \ {MinOf(set)})

\* daysMatch.map(...) of a timetable text: the weekdays it names, in order
WorkoutDaysOf(text) ==
  LET at == SortedSeq(WeekdayMatches(text))
  IN [k \in 1..Len(at) |-> Capitalized(text, at[k])]

\* ... on every text, computed once
WorkoutDays == [t \in Texts |-> WorkoutDaysOf(t)]

createUserFromOnboarding(fn, us, connected, fault, telegramId, state) ==
  LET d        == state.data
      days     == fn.workoutDays[d.currentTimetable]
      found    == Len(d.currentTimetable) # 0 /\ Len(days) # 0
      workDays == IF found THEN days ELSE <<>>
      perWeek  == IF found THEN Len(days)
                  ELSE IF d.workoutDaysPerWeek # 0 THEN d.workoutDaysPerWeek ELSE 3
      userData == [telegramId |-> telegramId,
                   profile    |-> [name   |-> IF Len(d.name) # 0 THEN d.name ELSE <<"U","s","e","r">>,
                                   height |-> d.height,
                                   weight |-> d.weight,
                                   bmi    |-> d.bmi,
                                   trainingPhilosophy |->
                                     IF d.trainingPhilosophy # "unset"
                                       THEN d.trainingPhilosophy ELSE "custom"],
                   schedule   |-> [workDays           |-> workDays,
                                   availableHours     |-> fn.onboarding[d.gymTime].parseGymTime,
                                   workoutDaysPerWeek |-> perWeek]]
  IN createUser(us, connected, fault, userData)

\* a variant whose failure restarts the questionnaire
StepFailedRestarting(state, us, msg) ==
  [success |-> FALSE, message |-> msg, nextStep |-> "none",
   state |-> OnbState("name", EmptyData),
   userCreated |-> FALSE, users |-> us, createUserCalls |-> 0]

\* an extraction failure: return { success: false, message, state: newState }
StepFailed(state, us, msg) ==
  [success |-> FALSE, message |-> msg, nextStep |-> "none", state |-> state,
   userCreated |-> FALSE, users |-> us, createUserCalls |-> 0]

\* a variant whose state skips the height question
StepDoneSkippingHeight(data, nextStep, us, msg) ==
  [success |-> TRUE, message |-> msg, nextStep |-> nextStep,
   state |-> OnbState(IF nextStep = "height" THEN "weight" ELSE nextStep, data),
   userCreated |-> FALSE, users |-> us, createUserCalls |-> 0]

\* the common tail: newState.step = nextStep || currentStep
StepDone(data, nextStep, us, msg) ==
  [success |-> TRUE, message |-> msg, nextStep |-> nextStep,
   state |-> OnbState(nextStep, data),
   userCreated |-> FALSE, users |-> us, createUserCalls |-> 0]

\* a variant that restarts at name but keeps the collected answers
StepRestartKeepingData(state, us) ==
  [success |-> TRUE, message |-> "ask:name_again",
   nextStep |-> "name", state |-> OnbState("name", state.data),
   userCreated |-> FALSE, users |-> us, createUserCalls |-> 0]

\* "no" at confirm_schedule: newState.step = 'name'; newState.data = {}
StepRestart(state, us) ==
  [success |-> TRUE, message |-> "ask:name_again",
   nextStep |-> "name", state |-> OnbState("name", EmptyData),
   userCreated |-> FALSE, users |-> us, createUserCalls |-> 0]

processOnboardingStep(fn, us, connected, fault, telegramId, currentStep, userInput, state) ==
  LET d == state.data
      x == fn.onboarding[userInput]
  IN
  CASE currentStep \in {"welcome", "name"} ->
         LET name == x.extractName
         IN IF Len(name) = 0 THEN StepFailed(state, us, "reask:name")
            ELSE StepDone([d EXCEPT !.name = name], "has_timetable", us, "ask:has_timetable")
    [] currentStep = "has_timetable" ->
         LET hasTimetable == x.parseYesNo
         IN IF hasTimetable = "null" THEN StepFailed(state, us, "reask:has_timetable")
            ELSE IF hasTimetable = "true"
              THEN StepDone([d EXCEPT !.hasTimetable = "true"], "current_timetable", us,
                            "ask:current_timetable")
              ELSE StepDone([d EXCEPT !.hasTimetable = "false"], "gym_time", us,
                            "ask:gym_time")
    [] currentStep = "current_timetable" ->
         StepDone([d EXCEPT !.currentTimetable = x.trim], "gym_time", us,
                  "ask:gym_time")
    [] currentStep = "gym_time" ->
         LET gymTime == x.extractTime
         IN IF Len(gymTime) = 0 THEN StepFailed(state, us, "reask:gym_time")
            ELSE StepDone([d EXCEPT !.gymTime = gymTime], "height", us, "ask:height")
    [] currentStep = "height" ->
         LET height == x.extractHeight
         IN IF height = 0 THEN StepFailed(state, us, "reask:height")
            ELSE StepDone([d EXCEPT !.height = height], "weight", us, "ask:weight")
    [] currentStep = "weight" ->
         LET weight == x.extractWeight
         IN IF weight = 0 THEN StepFailed(state, us, "reask:weight")
            ELSE StepDone([d EXCEPT !.weight = weight,
                                    !.bmi = calculateBMI(weight, d.height)],
                          "training_philosophy", us, "ask:training_philosophy")
    [] currentStep = "training_philosophy" ->
         LET philosophy == x.extractTrainingPhilosophy
         IN IF philosophy = "null" THEN StepFailed(state, us, "reask:training_philosophy")
            ELSE IF d.hasTimetable # "true"
              THEN StepDone([d EXCEPT !.trainingPhilosophy = philosophy],
                            "suggest_timetable", us, "ask:suggest_timetable")
              ELSE StepDone([d EXCEPT !.trainingPhilosophy = philosophy],
                            "confirm_schedule", us, "ask:confirm_schedule")
    [] currentStep = "suggest_timetable" ->
         LET planType == x.extractPlanType
         IN IF planType = "null" THEN StepFailed(state, us, "reask:suggest_timetable")
            ELSE StepDone([d EXCEPT
                             !.workoutDaysPerWeek = IF planType = "3" THEN 3 ELSE 6,
                             !.suggestedTimetable = IF planType = "3" THEN "3-day split"
                                                    ELSE "6-day split"],
                          "confirm_schedule", us, "ask:confirm_schedule")
    [] currentStep = "confirm_schedule" ->
         LET confirmed == x.parseYesNo
         IN IF confirmed = "null" THEN StepFailed(state, us, "reask:confirm_schedule")
            ELSE IF confirmed = "true"
              THEN LET userResult ==
                         createUserFromOnboarding(fn, us, connected, fault, telegramId, state)
                   IN IF userResult.success
                        \* nextStep is 'complete'; newState.step is not assigned
                        THEN [success |-> TRUE, message |-> "profile_set_up",
                              nextStep |-> "complete", state |-> state,
                              userCreated |-> TRUE, users |-> userResult.users,
                              createUserCalls |-> 1]
                        ELSE [success |-> FALSE, message |-> "trouble_saving_profile",
                              nextStep |-> "none", state |-> state,
                              userCreated |-> FALSE, users |-> us,
                              createUserCalls |-> 1]
              ELSE StepRestart(state, us)
    [] OTHER ->
         [success |-> FALSE, message |-> "start_over",
          nextStep |-> "none", state |-> OnbState("name", EmptyData),
          userCreated |-> FALSE, users |-> us, createUserCalls |-> 0]

\* getInitialMessage
getInitialMessage == "welcome:ask_name"

\* ------------------------------------------------------------------------
\* ConversationContext and the Conversation aggregate.  An absent value
\* (undefined / null) is a record with present = FALSE, an empty string or 0.

NoConfirmation == [pending |-> FALSE, newTime |-> <<>>, previousTime |-> <<>>]

EmptySessionData ==
  [onboardingState            |-> NoOnboarding,
   sessionId                  |-> "none",
   exercisesLogged            |-> <<>>,
   currentExercise            |-> <<>>,
   scheduleChangeConfirmation |-> NoConfirmation]

\* the context "undefined"
NoContext ==
  [present |-> FALSE, currentActivity |-> "unset", sessionData |-> EmptySessionData,
   userPreferences |-> FALSE]

\* { currentActivity: undefined, sessionData: {}, lastInteraction }
DefaultContext == [NoContext EXCEPT !.present = TRUE]

NoConversation ==
  [userId |-> "none", stored |-> FALSE, messages |-> <<>>, context |-> NoContext]

Message(role, content) == [role |-> role, content |-> content]

\* an element of exercisesLogged: the tuple handleWorkoutSession appends, or
\* the WorkoutSessionResponse object processMessage appends
ExerciseTuple(exercise, sets, reps, weight) ==
  [kind |-> "tuple", exercise |-> exercise, sets |-> sets, reps |-> reps,
   weight |-> weight, message |-> "none"]
ResponseEntry(data) ==
  [kind |-> "response", exercise |-> <<>>, sets |-> 0, reps |-> 0,
   weight |-> -1, message |-> data.message]

\* conversationsCollection.findOne({userId}, {sort: {updatedAt: -1}})
FindConversation(cs, userId) == {c \in cs : c.userId = userId}

\* getOrCreateConversation.  threw: the driver call rejected.
getOrCreateConversation(cs, connected, fault, userId, context) ==
  LET found == FindConversation(cs, userId)
      fresh == [userId |-> userId, stored |-> TRUE, messages |-> <<>>,
                context |-> IF context.present THEN context ELSE DefaultContext]
  IN IF ~ObjectIdIsValid(userId) \/ ~connected \/ fault = "conv.find"
       THEN [threw |-> TRUE, conversation |-> NoConversation, convs |-> cs,
             reads |-> 1, writes |-> 0]
     ELSE IF found # {}
       THEN [threw |-> FALSE, conversation |-> CHOOSE c \in found : TRUE, convs |-> cs,
             reads |-> 1, writes |-> 0]
     ELSE IF fault = "conv.insert"
       THEN [threw |-> TRUE, conversation |-> NoConversation, convs |-> cs,
             reads |-> 1, writes |-> 0]
     ELSE [threw |-> FALSE, conversation |-> fresh, convs |-> cs \cup {fresh},
           reads |-> 1, writes |-> 1]

\* a variant that appends the last two messages to the stored list instead
\* of replacing the stored document
saveConversationAppending(cs, connected, fault, conversation) ==
  LET found  == {c \in cs : c.userId = conversation.userId}
      stored == IF found = {} THEN <<>> ELSE (CHOOSE c \in found : TRUE).messages
      n      == Len(conversation.messages)
  IN IF ~connected \/ fault = "conv.save"
       THEN [threw |-> TRUE, convs |-> cs]
       ELSE [threw |-> FALSE,
             convs |-> {c \in cs : c.userId # conversation.userId}
                         \cup {[conversation EXCEPT
                                  !.stored = TRUE,
                                  !.messages = stored \o SubSeq(conversation.messages,
                                                                IF n > 2 THEN n - 1 ELSE 1, n)]}]

\* saveConversation: updateOne({_id}, {$set: conversation}, {upsert: true})
saveConversation(cs, connected, fault, conversation) ==
  IF ~connected \/ fault = "conv.save"
    THEN [threw |-> TRUE, convs |-> cs]
    ELSE [threw |-> FALSE,
          convs |-> {c \in cs : c.userId # conversation.userId}
                      \cup {[conversation EXCEPT !.stored = TRUE]}]

\* Array.prototype.slice(start): a negative start counts from the end, and
\* -0 is 0, the start of the array
slice(array, start) ==
  LET n    == Len(array)
      from == IF start < 0 THEN (IF n + start > 0 THEN n + start ELSE 0)
              ELSE IF start < n THEN start ELSE n
  IN SubSeq(array, from + 1, n)

\* getConversationHistory: the result { success, data }
getConversationHistory(us, cs, connected, fault, userId, limit) ==
  LET userResult   == getUserByTelegramId(us, connected, fault, userId)
      actualUserId == IF ObjectIdIsValid(userId) THEN userId ELSE userResult.data.id
      found        == FindConversation(cs, actualUserId)
  IN IF ~ObjectIdIsValid(userId) /\ ~userResult.success
       THEN [success |-> TRUE, data |-> <<>>]
     ELSE IF ~connected \/ fault = "conv.find"
       THEN [success |-> FALSE, data |-> <<>>]
     ELSE IF found = {}
       THEN [success |-> TRUE, data |-> <<>>]
     ELSE [success |-> TRUE, data |-> slice((CHOOSE c \in found : TRUE).messages, 0 - limit)]

\* ------------------------------------------------------------------------
\* OpenRouterClient.generateResponse catches every error of the completion
\* call and returns a fallback text.  A client that rejects instead (the test
\* double of ConversationalAIService.test.ts) is the outcome "throws"; the
\* callers below treat the result "llm:throws" as the exception.
generateResponse(llm) ==
  IF llm = "ok" THEN "llm:reply"
  ELSE IF llm = "throws" THEN "llm:throws"
  ELSE "llm:fallback"

\* ------------------------------------------------------------------------
\* ConversationalAIService.extractExerciseInfo

\* ends of a match of  (?:sets?|x)  that starts at position k
SetsUnitEnds(s, k) ==
  {k + Len(u) : u \in {w \in {<<"s","e","t","s">>, <<"s","e","t">>, <<"x">>} : StartsAt(s, k, w)}}

\* starts of the second number after  \s*(?:of\s*)?  from position p
RepsNumberStarts(s, p) ==
  LET q == SkipSpaces(s, p)
  IN {q} \cup (IF StartsAt(s, q, <<"o","f">>) THEN {SkipSpaces(s, q + 2)} ELSE {})

\* (\d+)\s*(?:reps?|repetitions?) at position r
RepsAt(s, r) ==
  /\ r <= Len(s) /\ IsDigit(s[r])
  /\ StartsAt(s, SkipSpaces(s, SkipDigits(s, r)), <<"r","e","p">>)

\* the matches of setsRepsPattern, as <<index, start of the reps number>>
SetsRepsMatches(s) ==
  {m \in (1..Len(s)) \X (1..Len(s)) :
      /\ IsDigit(s[m[1]])
      /\ \E e \in SetsUnitEnds(s, SkipSpaces(s, SkipDigits(s, m[1]))) :
            /\ m[2] \in RepsNumberStarts(s, e)
            /\ RepsAt(s, m[2])}

\* message.split(/\d/)[0]: the text before the first digit
BeforeFirstDigit(s) ==
  LET n == FirstNumberAt(s) IN IF n = 0 THEN s ELSE SubSeq(s, 1, n - 1)

ExerciseKeywords ==
  <<<<"b","e","n","c","h"," ","p","r","e","s","s">>, <<"s","q","u","a","t">>, <<"d","e","a","d","l","i","f","t">>, <<"b","i","c","e","p"," ","c","u","r","l">>, <<"t","r","i","c","e","p"," ","e","x","t","e","n","s","i","o","n">>,
    <<"s","h","o","u","l","d","e","r"," ","p","r","e","s","s">>, <<"l","a","t"," ","p","u","l","l","d","o","w","n">>, <<"r","o","w">>, <<"p","u","l","l"," ","u","p">>, <<"p","u","s","h"," ","u","p">>,
    <<"l","e","g"," ","p","r","e","s","s">>, <<"l","e","g"," ","c","u","r","l">>, <<"l","e","g"," ","e","x","t","e","n","s","i","o","n">>, <<"c","h","e","s","t"," ","p","r","e","s","s">>, <<"f","l","y">>>>

\* result: exercise <<>> when undefined, sets / reps 0 when undefined,
\* weight -1 when undefined
extractExerciseInfo(message) ==
  LET lower   == toLowerCase(message)
      sr      == SetsRepsMatches(lower)
      srIdx   == IF sr = {} THEN 0 ELSE MinOf({m[1] : m \in sr})
      srReps  == IF sr = {} THEN 0 ELSE MinOf({m[2] : m \in {x \in sr : x[1] = srIdx}})
      wUnits  == <<<<"k","g">>, <<"k","i","l","o">>, <<"l","b">>, <<"p","o","u","n","d">>>>
      wm      == NumberBeforeUnit(lower, wUnits)
      wIdx    == IF wm = {} THEN 0 ELSE MinOf(wm)
      wRaw    == DigitsValue(lower, wIdx, SkipDigits(lower, wIdx))
      weight  == IF wm = {} THEN -1
                 ELSE IF includes(lower, <<"l","b">>) \/ includes(lower, <<"p","o","u","n","d">>)
                   THEN PoundsToKg(wRaw) ELSE wRaw
      text0   == IF sr # {} THEN trim(SubSeq(message, 1, srIdx - 1)) ELSE message
      \* weightMatch.index is the zero-based srIdx - 1 / wIdx - 1
      text1   == IF wm # {} /\ (sr = {} \/ (wIdx - 1 # 0 /\ wIdx < srIdx))
                   THEN trim(SubSeq(message, 1, wIdx - 1)) ELSE text0
      kw      == {k \in 1..Len(ExerciseKeywords) : includes(lower, ExerciseKeywords[k])}
      exercise == IF kw # {} THEN ExerciseKeywords[MinOf(kw)]
                  ELSE IF Len(text1) # 0
                    THEN (IF Len(trim(BeforeFirstDigit(text1))) # 0
                            THEN trim(BeforeFirstDigit(text1)) ELSE text1)
                  ELSE <<>>
  IN [exercise |-> exercise,
      sets     |-> IF sr = {} THEN 0 ELSE DigitsValue(lower, srIdx, SkipDigits(lower, srIdx)),
      reps     |-> IF sr = {} THEN 0 ELSE DigitsValue(lower, srReps, SkipDigits(lower, srReps)),
      weight   |-> weight]

\* ------------------------------------------------------------------------
\* ConversationalAIService: schedule helpers.

\* a variant that compares the untrimmed reply with the token lists
parseYesNoAIUntrimmed(input) ==
  LET lower == toLowerCase(input)
  IN IF oneOf(lower, <<<<"y","e","s">>, <<"y">>, <<"y","e","a","h">>, <<"y","e","p">>, <<"s","u","r","e">>, <<"o","k">>,
                       <<"o","k","a","y">>, <<"c","o","r","r","e","c","t">>, <<"r","i","g","h","t">>, <<"t","r","u","e">>,
                       <<"u","p","d","a","t","e">>, <<"c","h","a","n","g","e">>>>)
       THEN "true"
     ELSE IF oneOf(lower, <<<<"n","o">>, <<"n">>, <<"n","o","p","e">>, <<"n","a","h">>, <<"w","r","o","n","g">>,
                            <<"i","n","c","o","r","r","e","c","t">>, <<"f","a","l","s","e">>, <<"k","e","e","p">>, <<"m","a","i","n","t","a","i","n">>,
                            <<"p","r","e","v","i","o","u","s">>>>)
       THEN "false"
     ELSE "null"

\* ConversationalAIService.parseYesNo
parseYesNoAI(input) ==
  LET lower == trim(toLowerCase(input))
  IN IF oneOf(lower, <<<<"y","e","s">>, <<"y">>, <<"y","e","a","h">>, <<"y","e","p">>, <<"s","u","r","e">>, <<"o","k">>,
                       <<"o","k","a","y">>, <<"c","o","r","r","e","c","t">>, <<"r","i","g","h","t">>, <<"t","r","u","e">>,
                       <<"u","p","d","a","t","e">>, <<"c","h","a","n","g","e">>>>)
       THEN "true"
     ELSE IF oneOf(lower, <<<<"n","o">>, <<"n">>, <<"n","o","p","e">>, <<"n","a","h">>, <<"w","r","o","n","g">>,
                            <<"i","n","c","o","r","r","e","c","t">>, <<"f","a","l","s","e">>, <<"k","e","e","p">>, <<"m","a","i","n","t","a","i","n">>,
                            <<"p","r","e","v","i","o","u","s">>>>)
       THEN "false"
     ELSE "null"

\* formatHour of formatTimeSlots
formatHour(hour) ==
  IF hour = 0 THEN <<"1","2"," ","A","M">>
  ELSE IF hour < 12 THEN NatToChars(hour) \o <<" ","A","M">>
  ELSE IF hour = 12 THEN <<"1","2"," ","P","M">>
  ELSE NatToChars(hour - 12) \o <<" ","P","M">>

formatTimeSlots(timeSlots) ==
  IF Len(timeSlots) = 0 THEN <<"n","o","t"," ","s","e","t">>
  ELSE formatHour(timeSlots[1].start) \o <<" ","-"," ">> \o formatHour(timeSlots[1].end)

\* every branch after the emptiness test returns input.trim()
extractTimeFromMessage(input) ==
  LET cleaned == toLowerCase(trim(input))
  IN IF Len(cleaned) = 0 THEN <<>> ELSE trim(input)

TimeKeywords ==
  <<<<"g","y","m"," ","t","i","m","e">>, <<"w","o","r","k","o","u","t"," ","t","i","m","e">>, <<"g","o"," ","t","o"," ","g","y","m">>, <<"g","y","m"," ","a","t">>, <<"w","o","r","k","o","u","t"," ","a","t">>,
    <<"n","o","w"," ","i"," ","g","o">>, <<"i"," ","g","o">>, <<"m","y"," ","t","i","m","e">>, <<"s","c","h","e","d","u","l","e">>, <<"c","h","a","n","g","e","d">>, <<"n","e","w"," ","t","i","m","e">>>>

\* result <<>> is null
detectGymTimeChange(message, currentTimeSlots) ==
  LET lower         == toLowerCase(message)
      hasKeyword    == \E k \in 1..Len(TimeKeywords) : includes(lower, TimeKeywords[k])
      extractedTime == extractTimeFromMessage(message)
  IN IF ~hasKeyword THEN <<>>
     ELSE IF Len(extractedTime) = 0 THEN <<>>
     ELSE IF toLowerCase(extractedTime) = toLowerCase(formatTimeSlots(currentTimeSlots))
       THEN <<>>
     ELSE extractedTime

\* ConversationalAIService.parseGymTimeToTimeSlots
parseGymTimeToTimeSlots(timeStr) ==
  LET lower == toLowerCase(timeStr)
      n     == FirstNumberAt(lower)
      \* (\d{1,2}) takes at most two digits
      upto  == IF SkipDigits(lower, n) > n + 2 THEN n + 2 ELSE SkipDigits(lower, n)
      h0    == DigitsValue(lower, n, upto)
      isPM  == \/ includes(lower, <<"p","m">>)
               \/ (h0 < 12 /\ (includes(lower, <<"e","v","e","n","i","n","g">>) \/ includes(lower, <<"n","i","g","h","t">>)))
      h1    == IF isPM /\ h0 < 12 THEN h0 + 12 ELSE h0
      hour  == IF ~isPM /\ h1 = 12 THEN 0 ELSE h1
  IN IF includes(lower, <<"m","o","r","n","i","n","g">>) \/ includes(lower, <<"a","m">>)
       THEN <<Slot(6, 10)>>
     ELSE IF includes(lower, <<"a","f","t","e","r","n","o","o","n">>)
       THEN <<Slot(12, 16)>>
     ELSE IF \/ includes(lower, <<"e","v","e","n","i","n","g">>) \/ includes(lower, <<"n","i","g","h","t">>)
             \/ includes(lower, <<"p","m">>)
       THEN <<Slot(17, 21)>>
     ELSE IF includes(lower, <<"a","f","t","e","r"," ","w","o","r","k">>)
       THEN <<Slot(17, 20)>>
     ELSE IF n # 0
       THEN <<Slot(hour, hour + 2)>>
     ELSE <<Slot(18, 20)>>

\* UserService.updateUserSchedule with { availableHours }
updateUserSchedule(us, connected, fault, userId, availableHours) ==
  LET found   == FindById(us, userId)
      user    == CHOOSE u \in found : TRUE
      updated == [user.schedule EXCEPT !.availableHours = availableHours]
  IN IF \/ ~ObjectIdIsValid(userId) \/ ~UsersAnswer(connected, fault) \/ fault = "users.find"
        \/ found = {}
        \/ ~validateUserSchedule(updated)
        \/ fault = "users.update"
       THEN [success |-> FALSE, users |-> us]
       ELSE [success |-> TRUE,
             users   |-> (us \ {user}) \cup {[user EXCEPT !.schedule = updated]}]

Activities == {"unset", "onboarding", "workout", "meal_planning", "gym_search"}

\* a variant that resets the activity when no keyword matches
newActivityResetting(message, currentActivity) ==
  LET lowerMessage == toLowerCase(message)
  IN IF \/ includes(lowerMessage, <<"g","y","m">>) \/ includes(lowerMessage, <<"w","o","r","k","o","u","t">>)
        \/ includes(lowerMessage, <<"e","x","e","r","c","i","s","e">>)
       THEN "workout"
     ELSE IF \/ includes(lowerMessage, <<"f","o","o","d">>) \/ includes(lowerMessage, <<"e","a","t">>)
             \/ includes(lowerMessage, <<"m","e","a","l">>)
       THEN "meal_planning"
     ELSE IF /\ includes(lowerMessage, <<"g","y","m">>)
             /\ (includes(lowerMessage, <<"f","i","n","d">>) \/ includes(lowerMessage, <<"l","o","c","a","t","i","o","n">>))
       THEN "gym_search"
     ELSE "unset"

\* updateContextFromMessage: the intent classifier (newActivity)
newActivity(message, currentActivity) ==
  LET lowerMessage == toLowerCase(message)
  IN IF \/ includes(lowerMessage, <<"g","y","m">>) \/ includes(lowerMessage, <<"w","o","r","k","o","u","t">>)
        \/ includes(lowerMessage, <<"e","x","e","r","c","i","s","e">>)
       THEN "workout"
     ELSE IF \/ includes(lowerMessage, <<"f","o","o","d">>) \/ includes(lowerMessage, <<"e","a","t">>)
             \/ includes(lowerMessage, <<"m","e","a","l">>)
       THEN "meal_planning"
     ELSE IF /\ includes(lowerMessage, <<"g","y","m">>)
             /\ (includes(lowerMessage, <<"f","i","n","d">>) \/ includes(lowerMessage, <<"l","o","c","a","t","i","o","n">>))
       THEN "gym_search"
     ELSE currentActivity

\* lowerMessage.includes('at the gym') || lowerMessage.includes("i'm at the gym")
mentionsAtTheGym(message) ==
  \/ includes(toLowerCase(message), <<"a","t"," ","t","h","e"," ","g","y","m">>)
  \/ includes(toLowerCase(message), <<"i","'","m"," ","a","t"," ","t","h","e"," ","g","y","m">>)

\* lowerMessage.includes('gym')
mentionsGym(message) == includes(toLowerCase(message), <<"g","y","m">>)

\* the schedules the services can store
SlotValues ==
  {<<Slot(17, 21)>>} \cup {parseGymTime(t) : t \in Texts}
                    \cup {parseGymTimeToTimeSlots(t) : t \in Texts}

\* the ConversationalAIService text functions on every text, computed once
AI ==
  [t \in Texts |->
     [mentionsAtTheGym        |-> mentionsAtTheGym(t),
      mentionsGym             |-> mentionsGym(t),
      extractExerciseInfo     |-> extractExerciseInfo(t),
      parseYesNo              |-> parseYesNoAI(t),
      parseGymTimeToTimeSlots |-> parseGymTimeToTimeSlots(t),
      detectGymTimeChange     |-> [slots \in SlotValues |-> detectGymTimeChange(t, slots)],
      newActivity             |-> [a \in Activities |-> newActivity(t, a)]]]

FormattedSlots == [slots \in SlotValues |-> formatTimeSlots(slots)]

\* the text functions of the two services, tabulated over the texts of the
\* model; the handlers below take the tables as their first argument
TextFunctions ==
  [onboarding      |-> Onboarding,
   ai              |-> AI,
   formatTimeSlots |-> FormattedSlots,
   workoutDays     |-> WorkoutDays]

updateContextFromMessage(fn, message, currentContext) ==
  [currentContext EXCEPT
     !.currentActivity = fn.ai[message].newActivity[currentContext.currentActivity],
     !.userPreferences = TRUE]

\* ------------------------------------------------------------------------
\* ConversationalAIService.handleWorkoutSession(fn, userId, sessionId, userMessage)
\* with userId the resolved internal id.  Result: the ApiResponse (success,
\* message, exerciseLogged), the conversations collection afterwards and the
\* calls made.  Every exception is caught and turned into success = false.

WorkoutFailed(cs, llmCalls, reads, writes) ==
  [success |-> FALSE, message |-> "workout_session_error", exerciseLogged |-> FALSE,
   convs |-> cs, llmCalls |-> llmCalls, convReads |-> reads, convWrites |-> writes]

WorkoutOk(cs, msg, logged, reads, writes) ==
  IF msg = "llm:throws" THEN WorkoutFailed(cs, 1, reads, writes)
  ELSE [success |-> TRUE, message |-> msg, exerciseLogged |-> logged,
        convs |-> cs, llmCalls |-> 1, convReads |-> reads, convWrites |-> writes]

handleWorkoutSession(fn, us, cs, connected, fault, llm, userId, sessionId, userMessage) ==
  LET userResult == getUserById(us, connected,
                                IF fault = "workout.find" THEN "users.find" ELSE fault,
                                userId)
      goc   == getOrCreateConversation(cs, connected, fault, userId,
                 [present |-> TRUE, currentActivity |-> "workout",
                  sessionData |-> [EmptySessionData EXCEPT !.sessionId = sessionId],
                  userPreferences |-> FALSE])
      conv0 == goc.conversation
      info  == fn.ai[userMessage].extractExerciseInfo
      \* stage the exercise name and save
      conv1 == [conv0 EXCEPT !.context.present = TRUE,
                             !.context.sessionData.currentExercise = info.exercise]
      save1 == saveConversation(goc.convs, connected, fault, conv1)
      \* append the tuple, clear currentExercise and save again
      conv2 == [conv1 EXCEPT
                  !.context.sessionData.exercisesLogged =
                     Append(@, ExerciseTuple(info.exercise, info.sets, info.reps, info.weight)),
                  !.context.sessionData.currentExercise = <<>>]
      save2 == saveConversation(save1.convs, connected, fault, conv2)
  IN IF ~userResult.success THEN WorkoutFailed(cs, 0, 0, 0)
     ELSE IF goc.threw THEN WorkoutFailed(goc.convs, 0, goc.reads, goc.writes)
     ELSE IF fn.ai[userMessage].mentionsAtTheGym \/ fn.ai[userMessage].mentionsGym
       THEN WorkoutOk(goc.convs, generateResponse(llm), FALSE, goc.reads, goc.writes)
     ELSE IF Len(info.exercise) # 0
       THEN IF save1.threw THEN WorkoutFailed(goc.convs, 0, goc.reads, goc.writes)
            ELSE IF info.sets = 0 \/ info.reps = 0
              THEN WorkoutOk(save1.convs, generateResponse(llm), FALSE,
                             goc.reads, goc.writes + 1)
            ELSE IF save2.threw
              THEN WorkoutFailed(save1.convs, 0, goc.reads, goc.writes + 1)
            ELSE WorkoutOk(save2.convs, generateResponse(llm), TRUE,
                           goc.reads, goc.writes + 2)
     ELSE WorkoutOk(goc.convs, generateResponse(llm), FALSE, goc.reads, goc.writes)

\* ------------------------------------------------------------------------
\* ConversationalAIService.processMessage(fn, userId, message, context).
\* The result records the ApiResponse (success, message, context, metadata),
\* the two collections afterwards, the branch that produced the response,
\* the sub-flows that ran, and the collaborator calls of the turn.

\* the request of a default-chat turn to the LLM: the conversationHistory
\* option processMessage passes, and the messages array the client sends
NoRequest == [history |-> <<>>, messages |-> <<>>]

\* a variant that passes the whole message list
chatHistoryWhole(messages) == messages

\* line 324: conversation.messages.slice(-10)
chatHistory(messages) == slice(messages, 0 - 10)

\* OpenRouterClient.generateResponse, the messages array: the system prompt,
\* conversationHistory.slice(-10), and the user message
buildMessages(conversationHistory, userMessage) ==
  <<Message("system", "prompt")>> \o slice(conversationHistory, 0 - 10)
     \o <<Message("user", userMessage)>>

NoCalls ==
  [llm |-> 0, createUser |-> 0, updateSchedule |-> 0, convReads |-> 0, convWrites |-> 0,
   onboardingSteps |-> 0]

Response(success, msg, context, branch, ran, onboardingStep, us, cs, calls) ==
  [success |-> success, message |-> msg, context |-> context, branch |-> branch,
   ran |-> ran, onboardingStep |-> onboardingStep, users |-> us, convs |-> cs,
   calls |-> calls, llmRequest |-> NoRequest]

\* a variant without the catch block: the error leaves processMessage
CaughtRethrowing(errorMessage, ran, us, cs, calls) ==
  Response(FALSE, "", NoContext, "thrown", ran, "none", us, cs, calls)

\* the catch block: success = false, no data; userMessage by content sniffing
Caught(errorMessage, ran, us, cs, calls) ==
  Response(FALSE,
           IF errorMessage \in {"User not found", "User ID is missing"}
             THEN "set_up_profile_first"
             ELSE "trouble_understanding",
           NoContext, "error", ran, "none", us, cs, calls)

\* lines 78-101: the response built from the result of processOnboardingStep
OnboardingResponse(cs, context, r) ==
  Response(r.success, r.message,
           [context EXCEPT !.present = TRUE,
                           !.currentActivity = "onboarding",
                           !.sessionData.onboardingState = r.state],
           "onboarding", {"onboarding"},
           IF r.nextStep # "none" THEN r.nextStep ELSE r.state.step,
           r.users, cs,
           [NoCalls EXCEPT !.createUser = r.createUserCalls, !.onboardingSteps = 1])

\* a variant that saves a profile in every onboarding turn
OnboardingTurnSavingEarly(fn, us, cs, connected, fault, userId, message, context) ==
  OnboardingResponse(cs, context,
    [processOnboardingStep(fn, us, connected, fault, userId,
                           context.sessionData.onboardingState.step, message,
                           context.sessionData.onboardingState)
       EXCEPT !.users =
         createUser(@, connected, fault,
                    [telegramId |-> userId,
                     profile    |-> [name |-> <<"U","s","e","r">>, height |-> 175,
                                     weight |-> 70, bmi |-> 229,
                                     trainingPhilosophy |-> "custom"],
                     schedule   |-> [workDays |-> <<>>,
                                     availableHours |-> <<Slot(18, 20)>>,
                                     workoutDaysPerWeek |-> 3]]).users])

\* lines 68-102: the onboarding branch
OnboardingTurn(fn, us, cs, connected, fault, userId, message, context) ==
  OnboardingResponse(cs, context,
    processOnboardingStep(fn, us, connected, fault, userId,
                          context.sessionData.onboardingState.step, message,
                          context.sessionData.onboardingState))

\* a variant that starts the questionnaire one step late
UnknownUserTurnSkippingName(us, cs, userId) ==
  IF ~ObjectIdIsValid(userId)
    THEN Response(TRUE, getInitialMessage,
                  [DefaultContext EXCEPT
                     !.currentActivity = "onboarding",
                     !.sessionData.onboardingState = OnbState("has_timetable", EmptyData)],
                  "start_onboarding", {"start_onboarding"}, "has_timetable", us, cs,
                  NoCalls)
    ELSE Caught("User not found", {}, us, cs, NoCalls)

\* lines 112-143: no profile for the id
UnknownUserTurn(us, cs, userId) ==
  IF ~ObjectIdIsValid(userId)
    THEN Response(TRUE, getInitialMessage,
                  [DefaultContext EXCEPT
                     !.currentActivity = "onboarding",
                     !.sessionData.onboardingState = OnbState("name", EmptyData)],
                  "start_onboarding", {"start_onboarding"}, "name", us, cs, NoCalls)
    ELSE Caught("User not found", {}, us, cs, NoCalls)

\* a variant that keeps only the messages of the current turn
DefaultChatForgetting(fn, us, cs, connected, fault, llm, message, conversation, ran, calls) ==
  LET withUser == [conversation EXCEPT !.messages = <<Message("user", message)>>]
      updatedContext == updateContextFromMessage(fn, message, withUser.context)
      reply    == generateResponse(llm)
      withBoth == [withUser EXCEPT !.context = updatedContext,
                                   !.messages = Append(@, Message("assistant", reply))]
      save     == saveConversation(cs, connected, fault, withBoth)
      calls1   == [calls EXCEPT !.llm = @ + 1]
      request  == [history  |-> chatHistory(withUser.messages),
                   messages |-> buildMessages(chatHistory(withUser.messages), message)]
  IN [ (IF reply = "llm:throws"
          THEN Caught("API Error", ran \cup {"chat"}, us, cs, calls1)
        ELSE IF connected /\ save.threw
          THEN Caught("driver", ran \cup {"chat"}, us, cs, calls1)
          ELSE Response(TRUE, reply, updatedContext, "chat", ran \cup {"chat"}, "none", us,
                        IF connected THEN save.convs ELSE cs,
                        IF connected THEN [calls1 EXCEPT !.convWrites = @ + 1] ELSE calls1))
       EXCEPT !.llmRequest = request ]

\* lines 310-360: default chat on the conversation held by the turn
DefaultChat(fn, us, cs, connected, fault, llm, message, conversation, ran, calls) ==
  LET withUser == [conversation EXCEPT !.messages = Append(@, Message("user", message))]
      updatedContext == updateContextFromMessage(fn, message, withUser.context)
      reply    == generateResponse(llm)
      withBoth == [withUser EXCEPT !.context = updatedContext,
                                   !.messages = Append(@, Message("assistant", reply))]
      save     == saveConversation(cs, connected, fault, withBoth)
      calls1   == [calls EXCEPT !.llm = @ + 1]
      request  == [history  |-> chatHistory(withUser.messages),
                   messages |-> buildMessages(chatHistory(withUser.messages), message)]
  IN [ (IF reply = "llm:throws"
          THEN Caught("API Error", ran \cup {"chat"}, us, cs, calls1)
        ELSE IF connected /\ save.threw
          THEN Caught("driver", ran \cup {"chat"}, us, cs, calls1)
          ELSE Response(TRUE, reply, updatedContext, "chat", ran \cup {"chat"}, "none", us,
                        IF connected THEN save.convs ELSE cs,
                        IF connected THEN [calls1 EXCEPT !.convWrites = @ + 1] ELSE calls1))
       EXCEPT !.llmRequest = request ]

\* a variant whose detection writes the new schedule at once
DetectOrChatApplying(fn, us, cs, connected, fault, llm, user, message, conversation, ran, calls) ==
  LET current      == fn.formatTimeSlots[user.schedule.availableHours]
      detectedTime == fn.ai[message].detectGymTimeChange[user.schedule.availableHours]
      staged == [conversation EXCEPT
                   !.context.sessionData.scheduleChangeConfirmation =
                      [pending |-> TRUE, newTime |-> detectedTime, previousTime |-> current]]
      save   == saveConversation(cs, connected, fault, staged)
      update == updateUserSchedule(us, connected, fault, user.id,
                                   fn.ai[detectedTime].parseGymTimeToTimeSlots)
  IN IF Len(detectedTime) # 0 /\ detectedTime # current
       THEN IF save.threw
              THEN Caught("driver", ran \cup {"detection"}, us, cs, calls)
              ELSE Response(TRUE, "confirm_schedule_change?", staged.context, "detection",
                            ran \cup {"detection"}, "none", update.users, save.convs,
                            [calls EXCEPT !.convWrites = @ + 1])
       ELSE DefaultChat(fn, us, cs, connected, fault, llm, message, conversation, ran, calls)

\* lines 287-308: schedule-change detection, else default chat
DetectOrChat(fn, us, cs, connected, fault, llm, user, message, conversation, ran, calls) ==
  LET current      == fn.formatTimeSlots[user.schedule.availableHours]
      detectedTime == fn.ai[message].detectGymTimeChange[user.schedule.availableHours]
      staged == [conversation EXCEPT
                   !.context.sessionData.scheduleChangeConfirmation =
                      [pending |-> TRUE, newTime |-> detectedTime, previousTime |-> current]]
      save   == saveConversation(cs, connected, fault, staged)
  IN IF Len(detectedTime) # 0 /\ detectedTime # current
       THEN IF save.threw
              THEN Caught("driver", ran \cup {"detection"}, us, cs, calls)
              ELSE Response(TRUE, "confirm_schedule_change?", staged.context, "detection",
                            ran \cup {"detection"}, "none", us, save.convs,
                            [calls EXCEPT !.convWrites = @ + 1])
       ELSE DefaultChat(fn, us, cs, connected, fault, llm, message, conversation, ran, calls)

\* a variant that answers the no and leaves the staged change in place
ConfirmationDeclinedKeepingStaged(us, cs, connected, fault, conversation, ran, calls) ==
  LET save == saveConversation(cs, connected, fault, conversation)
  IN IF save.threw
       THEN Caught("driver", ran, us, cs, calls)
       ELSE Response(TRUE, "schedule_kept", conversation.context, "confirmation",
                     ran, "none", us, save.convs, [calls EXCEPT !.convWrites = @ + 1])

\* lines 258-274: the user declined the staged change
ConfirmationDeclined(us, cs, connected, fault, conversation, ran, calls) ==
  LET cleared == [conversation EXCEPT
                    !.context.sessionData.scheduleChangeConfirmation = NoConfirmation]
      save    == saveConversation(cs, connected, fault, cleared)
  IN IF save.threw
       THEN Caught("driver", ran, us, cs, calls)
       ELSE Response(TRUE, "schedule_kept", cleared.context, "confirmation",
                     ran, "none", us, save.convs, [calls EXCEPT !.convWrites = @ + 1])

\* lines 221-285: a pending schedule-change confirmation, else detection
ConfirmOrLater(fn, us, cs, connected, fault, llm, user, message, conversation, ran, calls) ==
  LET scheduleChangeState == conversation.context.sessionData.scheduleChangeConfirmation
      confirmed    == fn.ai[message].parseYesNo
      newTimeSlots == fn.ai[scheduleChangeState.newTime].parseGymTimeToTimeSlots
      updateResult == updateUserSchedule(us, connected, fault, user.id, newTimeSlots)
      cleared == [conversation EXCEPT
                    !.context.sessionData.scheduleChangeConfirmation = NoConfirmation]
      save    == saveConversation(cs, connected, fault, cleared)
      ran1    == ran \cup {"confirmation"}
      calls1  == [calls EXCEPT !.updateSchedule = @ + 1]
  IN IF ~scheduleChangeState.pending
       THEN DetectOrChat(fn, us, cs, connected, fault, llm, user, message, conversation,
                         ran, calls)
     ELSE IF confirmed = "true"
       THEN IF ~updateResult.success
              THEN Response(FALSE, "trouble_updating_schedule", NoContext,
                            "confirmation", ran1, "none", us, cs, calls1)
            ELSE IF save.threw
              THEN Caught("driver", ran1, updateResult.users, cs, calls1)
            ELSE Response(TRUE, "schedule_updated", cleared.context, "confirmation",
                          ran1, "none", updateResult.users, save.convs,
                          [calls1 EXCEPT !.convWrites = @ + 1])
     ELSE IF confirmed = "false"
       THEN ConfirmationDeclined(us, cs, connected, fault, conversation, ran1, calls)
     ELSE Response(TRUE, "confirm_schedule_change?", conversation.context,
                   "confirmation", ran1, "none", us, cs, calls)

\* lines 187-218: the turn after handleWorkoutSession returned w
WorkoutTried(fn, us, connected, fault, llm, user, message, conversation, calls, sessionId, w) ==
  LET calls1 == [calls EXCEPT !.llm = @ + w.llmCalls,
                              !.convReads = @ + w.convReads,
                              !.convWrites = @ + w.convWrites]
      updated == [conversation EXCEPT
                    !.context.currentActivity = "workout",
                    !.context.sessionData.sessionId = sessionId,
                    !.context.sessionData.exercisesLogged =
                       IF w.exerciseLogged THEN Append(@, ResponseEntry(w)) ELSE @]
      save == saveConversation(w.convs, connected, fault, updated)
  IN IF w.success
       THEN IF connected /\ save.threw
              THEN Caught("driver", {"workout"}, us, w.convs, calls1)
              ELSE Response(TRUE, w.message, updated.context, "workout",
                            {"workout"}, "none", us,
                            IF connected THEN save.convs ELSE w.convs,
                            IF connected THEN [calls1 EXCEPT !.convWrites = @ + 1]
                            ELSE calls1)
       ELSE ConfirmOrLater(fn, us, w.convs, connected, fault, llm, user, message,
                           conversation, {"workout"}, calls1)

\* lines 180-219: the workout branch, tried first
WorkoutOrLater(fn, us, cs, connected, fault, llm, user, message, conversation, calls) ==
  LET isWorkoutActivity == conversation.context.currentActivity = "workout"
      isStartingWorkout == \/ fn.ai[message].mentionsAtTheGym
                           \/ (fn.ai[message].mentionsGym /\ ~isWorkoutActivity)
      sessionId == IF conversation.context.sessionData.sessionId # "none"
                     THEN conversation.context.sessionData.sessionId ELSE "session"
  IN IF isStartingWorkout \/ isWorkoutActivity
       THEN WorkoutTried(fn, us, connected, fault, llm, user, message, conversation,
                         calls, sessionId,
                         handleWorkoutSession(fn, us, cs, connected, fault, llm, user.id,
                                              sessionId, message))
       ELSE ConfirmOrLater(fn, us, cs, connected, fault, llm, user, message, conversation,
                           {}, calls)

\* lines 145-178: the conversation of a resolved user
KnownUserTurn(fn, us, cs, connected, fault, llm, user, message, context) ==
  LET goc == getOrCreateConversation(cs, connected, fault, user.id, context)
      inMemory == [userId |-> user.id, stored |-> FALSE, messages |-> <<>>,
                   context |-> IF context.present THEN context ELSE DefaultContext]
  IN IF connected /\ goc.threw
       THEN Caught("driver", {}, us, cs, [NoCalls EXCEPT !.convReads = goc.reads])
       ELSE WorkoutOrLater(fn, us, IF connected THEN goc.convs ELSE cs,
                           connected, fault, llm, user, message,
                           IF connected THEN goc.conversation ELSE inMemory,
                           IF connected
                             THEN [NoCalls EXCEPT !.convReads = goc.reads,
                                                  !.convWrites = goc.writes]
                             ELSE NoCalls)

\* a variant that looks the profile up before the onboarding state
processMessageProfileFirst(fn, us, cs, connected, fault, llm, userId, message, context) ==
  LET onboardingState == context.sessionData.onboardingState
      userResult == IF ObjectIdIsValid(userId)
                      THEN getUserById(us, connected, fault, userId)
                      ELSE getUserByTelegramId(us, connected, fault, userId)
  IN IF userResult.success
       THEN KnownUserTurn(fn, us, cs, connected, fault, llm, userResult.data, message, context)
     ELSE IF context.present /\ onboardingState.present /\ onboardingState.step # "complete"
       THEN OnboardingTurn(fn, us, cs, connected, fault, userId, message, context)
     ELSE UnknownUserTurn(us, cs, userId)

processMessage(fn, us, cs, connected, fault, llm, userId, message, context) ==
  LET onboardingState == context.sessionData.onboardingState
      userResult == IF ObjectIdIsValid(userId)
                      THEN getUserById(us, connected, fault, userId)
                      ELSE getUserByTelegramId(us, connected, fault, userId)
  IN IF context.present /\ onboardingState.present /\ onboardingState.step # "complete"
       THEN OnboardingTurn(fn, us, cs, connected, fault, userId, message, context)
     ELSE IF ~userResult.success
       THEN UnknownUserTurn(us, cs, userId)
     ELSE KnownUserTurn(fn, us, cs, connected, fault, llm, userResult.data, message, context)

\* ------------------------------------------------------------------------
\* The system: the two collections, the connection, one client and the
\* context that client got back from its last turn.

VARIABLES
  users,      \* the users collection
  convs,      \* the conversations collection
  connected,  \* database.isConnected()
  failing,    \* the call that rejects in this deployment ("none": no call does)
  caller,     \* the user id the client sends with every request
  held,       \* the context of the client's last response that carried one
  followUps,  \* turns of the client since onboarding created its profile
  last,       \* the last call: request, response and calls of a turn, or the
              \* limit and the result of a history request
  racing,     \* two turns in flight at once: what each loaded and returned
  bot         \* the Telegram bot service: its flags, the listeners of the
              \* library's emitter, and what the last inbound text caused

vars == <<users, convs, connected, failing, caller, held, followUps, last, racing, bot>>

\* bounds of the exploration
MaxMessages  == 3   \* a turn starts only while the conversation is shorter
MaxLogged    == 2   \* ... and while fewer exercises are logged
MaxFollowUps == 2   \* turns explored after onboarding created a profile
MaxLimit     == 3   \* the limits of a history request are 0..MaxLimit
MaxStored    == 12  \* the longest conversation a default-chat turn starts on

\* a profile as onboarding creates it from John / no / evening / 175 cm /
\* 70 kg / 1 / 3 days
ExistingUser ==
  [id         |-> "oid1",
   telegramId |-> "tg0",
   profile    |-> [name |-> <<"J","o","h","n">>, height |-> 175, weight |-> 70, bmi |-> 229,
                   trainingPhilosophy |-> "arnold"],
   schedule   |-> [workDays |-> <<>>, availableHours |-> <<Slot(17, 21)>>,
                   workoutDaysPerWeek |-> 3]]

Callers == {"tg1", "oid1", "oid9"}

Inputs(context) ==
  IF context.present /\ context.sessionData.onboardingState.present
       /\ context.sessionData.onboardingState.step # "complete"
    THEN Answers(context.sessionData.onboardingState.step)
  ELSE IF caller = "oid1" THEN ChatMessages
  ELSE NewcomerMessages

\* the calls that may reject: a driver call or the LLM request; under
\* "users.stub" none rejects and the user service answers without the database
Faults == {"none", "users.insert", "users.update", "workout.find", "conv.save",
           "llm.request", "llm.reject", "users.stub"}

\* the outcome of the OpenRouter request under a fault
LlmOutcome(fault) ==
  IF fault = "llm.request" THEN "error"
  ELSE IF fault = "llm.reject" THEN "throws"
  ELSE "ok"

\* the turns in flight: none is, in the sequential system
Procs == {1, 2}
IdleTurn ==
  [pc |-> "idle", message |-> <<>>, conversation |-> NoConversation,
   success |-> FALSE, reply |-> "none"]
NoRace == [turn |-> [p \in Procs |-> IdleTurn], saved |-> <<>>]

NoTurn ==
  [happened |-> FALSE, via |-> "none", userId |-> "none", message |-> <<>>,
   contextIn |-> NoContext,
   success |-> FALSE, reply |-> "none", context |-> NoContext, branch |-> "none",
   ran |-> {}, onboardingStep |-> "none", calls |-> NoCalls,
   limit |-> 0, history |-> <<>>, llmRequest |-> NoRequest]

\* TelegramBotService after its constructor: isRunning false, a bot that
\* neither polls nor has a webhook, no listener on the emitter
NoBot ==
  [deployment |-> "development", isRunning |-> FALSE, polling |-> FALSE,
   webHook |-> FALSE, listeners |-> 0, startCalls |-> 0, inbound |-> 0,
   handled |-> 0, replies |-> 0]

Init ==
  /\ users = {ExistingUser}
  /\ convs = {}
  /\ connected \in BOOLEAN
  /\ failing \in Faults
  /\ failing = "users.stub" => ~connected
  /\ caller \in Callers
  /\ held = NoContext
  /\ followUps = 0
  /\ last = NoTurn
  /\ racing = NoRace
  /\ bot = NoBot

CallerConversation ==
  LET mine == {c \in convs : \E u \in users :
                  u.id = c.userId /\ caller \in {u.id, u.telegramId}}
  IN IF mine = {} THEN NoConversation ELSE CHOOSE c \in mine : TRUE

CreatedInRun == \E u \in users : u.telegramId = caller

\* the bounds on a new turn
MayTurn ==
  /\ Len(CallerConversation.messages) < MaxMessages
  /\ Len(CallerConversation.context.sessionData.exercisesLogged) < MaxLogged
  /\ CreatedInRun => followUps < MaxFollowUps

\* one call of processMessage and what the client keeps of the response
Turn(via, message, context) ==
  \E r \in {processMessage(TextFunctions, users, convs, connected, failing,
                            LlmOutcome(failing),
                            caller, message, context)} :
     /\ users' = r.users
     /\ convs' = r.convs
     /\ held' = IF r.context.present THEN r.context ELSE held
     /\ followUps' = IF CreatedInRun THEN followUps + 1 ELSE followUps
     /\ last' = [happened |-> TRUE, via |-> via, userId |-> caller, message |-> message,
                 contextIn |-> context,
                 success |-> r.success, reply |-> r.message, context |-> r.context,
                 branch |-> r.branch, ran |-> r.ran,
                 onboardingStep |-> r.onboardingStep, calls |-> r.calls,
                 limit |-> 0, history |-> <<>>, llmRequest |-> r.llmRequest]
     /\ UNCHANGED <<connected, failing, caller, racing, bot>>

\* POST /api/ai/chat: the client sends back the context it holds
ApiChat ==
  /\ MayTurn
  /\ \E message \in Inputs(held) : Turn("api", message, held)

\* a variant that sends the context of the last response with the text
handleTextMessageWithContext ==
  /\ MayTurn
  /\ caller \in TelegramIds
  /\ \E message \in Inputs(held) : Turn("telegram", message, held)

\* TelegramBotService.handleTextMessage: processMessage(fn, telegramId, text)
handleTextMessage ==
  /\ MayTurn
  /\ caller \in TelegramIds
  /\ \E message \in Inputs(NoContext) : Turn("telegram", message, NoContext)

\* a call of getConversationHistory(userId, limit) by the client
HistoryRequest ==
  \E limit \in 0..MaxLimit :
    \E r \in {getConversationHistory(users, convs, connected, failing, caller, limit)} :
       /\ last' = [NoTurn EXCEPT !.via = "history", !.userId = caller,
                                 !.success = r.success, !.limit = limit,
                                 !.history = r.data]
       /\ UNCHANGED <<users, convs, connected, failing, caller, held, followUps, racing, bot>>

Next == ApiChat \/ handleTextMessage \/ HistoryRequest

Spec == Init /\ [][Next]_vars

\* ------------------------------------------------------------------------
\* Two default-chat turns of one user in flight at once.  A turn awaits the
\* LLM between loading the conversation (line 154) and saving it (line
\* 342); another turn may run in between.

\* the messages of the two turns: both are dispatched to default chat
RaceMessages == {<<"h","e","l","l","o">>, <<"w","h","a","t"," ","s","h","o","u","l","d"," ","i"," ","e","a","t">>}

\* the conversation stored before the two turns: empty, or one earlier turn
EarlierMessages ==
  {<<>>, <<Message("user", <<"h","e","l","l","o">>), Message("assistant", "llm:reply")>>}

RaceInit ==
  /\ users = {ExistingUser}
  /\ \E earlier \in EarlierMessages :
        convs = {[userId |-> "oid1", stored |-> TRUE, messages |-> earlier,
                  context |-> DefaultContext]}
  /\ connected = TRUE
  /\ failing \in {"none", "llm.request", "conv.save"}
  /\ caller = "oid1"
  /\ held = NoContext
  /\ followUps = 0
  /\ last = NoTurn
  /\ racing = NoRace
  /\ bot = NoBot

\* lines 104-184 and 221-308 of a turn: the profile and the conversation are
\* loaded and no earlier branch takes the message
RaceLoad(p) ==
  /\ racing.turn[p].pc = "idle"
  /\ \E message \in RaceMessages :
       \E r \in {getOrCreateConversation(convs, connected, failing, caller, NoContext)} :
          /\ ~r.threw
          /\ processMessage(TextFunctions, users, convs, connected, failing,
                            LlmOutcome(failing), caller, message, NoContext).ran = {"chat"}
          /\ racing' = [racing EXCEPT !.turn[p] = [@ EXCEPT !.pc = "loaded",
                                                            !.message = message,
                                                            !.conversation = r.conversation]]
          /\ convs' = r.convs
  /\ UNCHANGED <<users, connected, failing, caller, held, followUps, last, bot>>

\* lines 310-360 of the turn: the LLM has answered, the loaded conversation
\* with the two new messages is saved and the response returned
RaceFinish(p) ==
  /\ racing.turn[p].pc = "loaded"
  /\ \E r \in {DefaultChat(TextFunctions, users, convs, connected, failing,
                           LlmOutcome(failing), racing.turn[p].message,
                           racing.turn[p].conversation, {}, NoCalls)} :
        /\ convs' = r.convs
        /\ racing' = [turn  |-> [racing.turn EXCEPT ![p] = [@ EXCEPT !.pc = "done",
                                                                    !.success = r.success,
                                                                    !.reply = r.message]],
                      saved |-> IF r.success THEN Append(racing.saved, p) ELSE racing.saved]
  /\ UNCHANGED <<users, connected, failing, caller, held, followUps, last, bot>>

RaceNext == \E p \in Procs : RaceLoad(p) \/ RaceFinish(p)

RaceSpec == RaceInit /\ [][RaceNext]_vars

\* ------------------------------------------------------------------------
\* Default chat on a long conversation: the stored message list is longer
\* than the ten messages the LLM is given.

\* n messages stored by earlier default-chat turns, each user message with a
\* content of its own
StoredBefore(n) ==
  [i \in 1..n |->
     IF i % 2 = 1
       THEN Message("user", <<<<"1","2","3","4","5","6","7","8","9">>[(i + 1) \div 2]>>)
       ELSE Message("assistant", "llm:reply")]

LongInit ==
  /\ users = {ExistingUser}
  /\ \E n \in 0..MaxStored :
        convs = {[userId |-> "oid1", stored |-> TRUE, messages |-> StoredBefore(n),
                  context |-> DefaultContext]}
  /\ connected = TRUE
  /\ failing \in {"none", "llm.request"}
  /\ caller = "oid1"
  /\ held = NoContext
  /\ followUps = 0
  /\ last = NoTurn
  /\ racing = NoRace
  /\ bot = NoBot

\* POST /api/ai/chat with a message that default chat answers
LongChat ==
  /\ Len(CallerConversation.messages) <= MaxStored
  /\ \E message \in RaceMessages : Turn("api", message, held)

LongNext == LongChat

LongSpec == LongInit /\ [][LongNext]_vars

\* ------------------------------------------------------------------------
\* The Telegram bot service: start(), stop() and the 'message' listeners.

MaxStartCalls == 3   \* calls of start() in a run
MaxInbound    == 2   \* text messages Telegram delivers in a run

\* nodeEnv and webhookUrl: start() sets a webhook only in production with a
\* webhook url, stop() deletes the webhook whenever nodeEnv is production
Deployments == {"development", "production", "production-nowebhook"}

BotInit ==
  /\ users = {ExistingUser}
  /\ convs = {}
  /\ connected \in BOOLEAN
  /\ failing \in {"none", "llm.request"}
  /\ caller = "tg1"
  /\ held = NoContext
  /\ followUps = 0
  /\ last = NoTurn
  /\ racing = NoRace
  /\ \E d \in Deployments : bot = [NoBot EXCEPT !.deployment = d]

\* setupMessageHandlers: bot.on('message', ...) adds one more listener; the
\* emitter keeps the listeners it already has
setupMessageHandlers(b) == [b EXCEPT !.listeners = @ + 1]

\* TelegramBotService.start
start ==
  /\ bot.startCalls < MaxStartCalls
  /\ bot' = IF bot.isRunning
              THEN [bot EXCEPT !.startCalls = @ + 1]
            ELSE LET listening ==
                       IF bot.deployment = "production"
                         THEN [bot EXCEPT !.webHook = TRUE]
                         ELSE [bot EXCEPT !.polling = TRUE]
                 IN [setupMessageHandlers(listening) EXCEPT !.isRunning = TRUE,
                                                            !.startCalls = @ + 1]
  /\ UNCHANGED <<users, convs, connected, failing, caller, held, followUps, last, racing>>

\* TelegramBotService.stop
stop ==
  /\ bot' = IF ~bot.isRunning
              THEN bot
            ELSE IF bot.deployment = "development"
              THEN [bot EXCEPT !.polling = FALSE, !.isRunning = FALSE]
            ELSE [bot EXCEPT !.webHook = FALSE, !.isRunning = FALSE]
  /\ UNCHANGED <<users, convs, connected, failing, caller, held, followUps, last, racing>>

\* the emitter calls every 'message' listener with the update; each listener
\* calls handleTextMessage, which calls processMessage and sends one reply
RECURSIVE emitMessage(_, _, _, _, _, _, _)
emitMessage(n, us, cs, isConnected, fault, telegramId, message) ==
  IF n = 0
    THEN [users |-> us, convs |-> cs, handled |-> 0, replies |-> 0]
  ELSE LET r    == processMessage(TextFunctions, us, cs, isConnected, fault,
                                  LlmOutcome(fault), telegramId, message, NoContext)
           rest == emitMessage(n - 1, r.users, r.convs, isConnected, fault,
                               telegramId, message)
       IN [rest EXCEPT !.handled = @ + 1, !.replies = @ + 1]

\* a text message that is no command reaches the bot while it polls or has
\* a webhook
onMessage ==
  /\ bot.polling \/ bot.webHook
  /\ bot.inbound < MaxInbound
  /\ \E message \in RaceMessages :
       \E e \in {emitMessage(bot.listeners, users, convs, connected, failing,
                              caller, message)} :
          /\ users' = e.users
          /\ convs' = e.convs
          /\ bot' = [bot EXCEPT !.inbound = @ + 1, !.handled = e.handled,
                                !.replies = e.replies]
  /\ UNCHANGED <<connected, failing, caller, held, followUps, last, racing>>

BotNext == start \/ stop \/ onMessage

BotSpec == BotInit /\ [][BotNext]_vars

\* ------------------------------------------------------------------------
\* The last turn seen from the client and from the collections.

\* context?.sessionData?.onboardingState && onboardingState.step !== 'complete'
ActiveOnboarding(context) ==
  /\ context.present
  /\ context.sessionData.onboardingState.present
  /\ context.sessionData.onboardingState.step # "complete"

\* the onboarding state a turn was called with and the one it returned
OnboardingIn(turn)  == turn.contextIn.sessionData.onboardingState
OnboardingOut(turn) == turn.context.sessionData.onboardingState

\* the profiles the id of the client resolves to
CallerProfiles == {u \in users : caller \in {u.id, u.telegramId}}

\* the ids of the stored profiles
UserIds(us) == {u.id : u \in us}

\* the step's extractor returns null (or an empty string) for the answer
ExtractorRejects(step, text) ==
  CASE step \in {"welcome", "name"}                 -> Len(Onboarding[text].extractName) = 0
    [] step \in {"has_timetable", "confirm_schedule"} -> Onboarding[text].parseYesNo = "null"
    [] step = "gym_time"            -> Len(Onboarding[text].extractTime) = 0
    [] step = "height"              -> Onboarding[text].extractHeight = 0
    [] step = "weight"              -> Onboarding[text].extractWeight = 0
    [] step = "training_philosophy" -> Onboarding[text].extractTrainingPhilosophy = "null"
    [] step = "suggest_timetable"   -> Onboarding[text].extractPlanType = "null"
    [] OTHER                        -> FALSE

\* the step the questionnaire enters after a successful answer
StepAfter(step, answer, hasTimetable) ==
  CASE step \in {"welcome", "name"} -> "has_timetable"
    [] step = "has_timetable" ->
         IF Onboarding[answer].parseYesNo = "true" THEN "current_timetable" ELSE "gym_time"
    [] step = "current_timetable"   -> "gym_time"
    [] step = "gym_time"            -> "height"
    [] step = "height"              -> "weight"
    [] step = "weight"              -> "training_philosophy"
    [] step = "training_philosophy" ->
         IF hasTimetable = "true" THEN "confirm_schedule" ELSE "suggest_timetable"
    [] step = "suggest_timetable"   -> "confirm_schedule"
    [] step = "confirm_schedule" ->
         IF Onboarding[answer].parseYesNo = "true" THEN "complete" ELSE "name"
    [] OTHER                        -> "none"

\* the message is a schedule-change statement against the stored hours
QualifiesAsScheduleChange(message, availableHours) ==
  /\ Len(AI[message].detectGymTimeChange[availableHours]) # 0
  /\ AI[message].detectGymTimeChange[availableHours] # FormattedSlots[availableHours]

\* scheduleChangeConfirmation.pending in the stored conversation of the client
PendingConfirmation == CallerConversation.context.sessionData.scheduleChangeConfirmation

\* ------------------------------------------------------------------------
\* Properties.

C2_ExtractionFailureNeverAdvances ==
  [][ ( /\ last'.happened
        /\ ActiveOnboarding(last'.contextIn)
        /\ ExtractorRejects(OnboardingIn(last').step, last'.message) )
      => /\ ~last'.success
         /\ last'.reply \in {"reask:name", "reask:has_timetable", "reask:gym_time",
                             "reask:height", "reask:weight",
                             "reask:training_philosophy", "reask:suggest_timetable",
                             "reask:confirm_schedule"}
         /\ OnboardingOut(last').step = OnboardingIn(last').step
         /\ OnboardingOut(last').data = OnboardingIn(last').data
         /\ last'.onboardingStep = OnboardingIn(last').step ]_vars

C2_Witness ==
  /\ last.happened
  /\ OnboardingIn(last).step = "height"
  /\ last.message = <<"t","a","l","l">>
  /\ ~last.success
  /\ OnboardingOut(last).step = "height"
  /\ OnboardingOut(last).data.name # <<>>

\* C3: every successful onboarding answer enters the next step of the order
\* name, has_timetable, [current_timetable], gym_time, height, weight,
\* training_philosophy, [suggest_timetable], confirm_schedule, complete;
\* current_timetable is entered exactly after a yes at has_timetable, and
\* suggest_timetable exactly when that answer was no.  The step entered is the
\* nextStep the turn reports; up to confirm_schedule it is also the step of
\* the returned state.
C3_StepsInFixedOrder ==
  [][ ( /\ last'.happened
        /\ ActiveOnboarding(last'.contextIn)
        /\ last'.success )
      => /\ last'.onboardingStep =
              StepAfter(OnboardingIn(last').step, last'.message,
                        OnboardingIn(last').data.hasTimetable)
         /\ last'.onboardingStep # "complete"
              => OnboardingOut(last').step = last'.onboardingStep
         /\ OnboardingIn(last').step = "has_timetable"
              => OnboardingOut(last').data.hasTimetable =
                    Onboarding[last'.message].parseYesNo
         /\ OnboardingIn(last').step \notin {"has_timetable", "confirm_schedule"}
              => OnboardingOut(last').data.hasTimetable =
                    OnboardingIn(last').data.hasTimetable
         /\ OnboardingOut(last').step = "current_timetable"
              => OnboardingOut(last').data.hasTimetable = "true"
         /\ OnboardingOut(last').step = "suggest_timetable"
              => OnboardingOut(last').data.hasTimetable = "false" ]_vars

C3_Witness ==
  /\ last.happened
  /\ last.success
  /\ OnboardingIn(last).step = "confirm_schedule"
  /\ OnboardingIn(last).data.hasTimetable = "false"
  /\ OnboardingIn(last).data.suggestedTimetable # "unset"
  /\ OnboardingIn(last).data.height # 0
  /\ last.onboardingStep = "complete"

\* C4: a yes at confirm_schedule that the profile store accepts creates the
\* profile and returns an onboarding state whose step is complete.
C4_ConfirmedProfileCompletes ==
  [][ ( /\ last'.happened
        /\ ActiveOnboarding(last'.contextIn)
        /\ OnboardingIn(last').step = "confirm_schedule"
        /\ Onboarding[last'.message].parseYesNo = "true"
        /\ last'.success )
      => /\ FindByTelegramId(users, caller) = {}
         /\ FindByTelegramId(users', caller) # {}
         /\ OnboardingOut(last').step = "complete" ]_vars

\* the profile is created and the returned state is still at confirm_schedule
C4_Witness ==
  /\ last.happened
  /\ ActiveOnboarding(last.contextIn)
  /\ OnboardingIn(last).step = "confirm_schedule"
  /\ Onboarding[last.message].parseYesNo = "true"
  /\ last.success
  /\ last.calls.createUser = 1
  /\ FindByTelegramId(users, last.userId) # {}
  /\ last.onboardingStep = "complete"
  /\ OnboardingOut(last).step = "confirm_schedule"

\* C5: only a yes answered at confirm_schedule invokes createUser or adds a
\* profile; after "hi" and then "John" the step is has_timetable and the
\* client has no profile.
C5_ProfileOnlyOnConfirmation ==
  [][ /\ ( /\ last'.happened
           /\ \/ last'.calls.createUser # 0
              \/ UserIds(users') # UserIds(users) )
         => /\ ActiveOnboarding(last'.contextIn)
            /\ OnboardingIn(last').step = "confirm_schedule"
            /\ Onboarding[last'.message].parseYesNo = "true"
      /\ ( /\ last'.happened
           /\ ~ObjectIdIsValid(caller)
           /\ FindByTelegramId(users, caller) = {}
           /\ OnboardingIn(last') = OnbState("name", EmptyData)
           /\ last'.message = <<"J","o","h","n">> )
         => /\ OnboardingOut(last').step = "has_timetable"
            /\ OnboardingOut(last').data.name = <<"J","o","h","n">>
            /\ FindByTelegramId(users', caller) = {} ]_vars

C5_Witness ==
  /\ last.happened
  /\ ~ObjectIdIsValid(last.userId)
  /\ OnboardingIn(last) = OnbState("name", EmptyData)
  /\ last.message = <<"J","o","h","n">>
  /\ OnboardingOut(last).step = "has_timetable"
  /\ FindByTelegramId(users, last.userId) = {}

\* C6: a no at confirm_schedule returns the state {step: name, data: empty}
\* and creates no profile.
C6_DeclinedConfirmationRestarts ==
  [][ ( /\ last'.happened
        /\ ActiveOnboarding(last'.contextIn)
        /\ OnboardingIn(last').step = "confirm_schedule"
        /\ Onboarding[last'.message].parseYesNo = "false" )
      => /\ last'.success
         /\ OnboardingOut(last') = OnbState("name", EmptyData)
         /\ last'.onboardingStep = "name"
         /\ last'.calls.createUser = 0
         /\ users' = users ]_vars

C6_Witness ==
  /\ last.happened
  /\ OnboardingIn(last).step = "confirm_schedule"
  /\ OnboardingIn(last).data.name # <<>>
  /\ OnboardingIn(last).data.weight # 0
  /\ Onboarding[last.message].parseYesNo = "false"
  /\ OnboardingOut(last) = OnbState("name", EmptyData)
  /\ FindByTelegramId(users, last.userId) = {}

\* C7: a turn whose context carries an onboarding state with a step other
\* than complete runs the onboarding state machine only: the response is the
\* result of processOnboardingStep, the LLM is not called, no conversation is
\* touched and no workout, confirmation, detection or chat branch runs.
C7_ActiveOnboardingOwnsTheTurn ==
  [][ ( /\ last'.happened
        /\ ActiveOnboarding(last'.contextIn) )
      => /\ last'.ran = {"onboarding"}
         /\ last'.branch = "onboarding"
         /\ last'.calls.llm = 0
         /\ last'.calls.onboardingSteps = 1
         /\ last'.calls.updateSchedule = 0
         /\ last'.calls.convReads = 0
         /\ last'.calls.convWrites = 0
         /\ convs' = convs
         /\ \E r \in {processOnboardingStep(TextFunctions, users, connected, failing, caller,
                                            OnboardingIn(last').step, last'.message,
                                            OnboardingIn(last'))} :
               /\ last'.success = r.success
               /\ last'.reply = r.message
               /\ OnboardingOut(last') = r.state ]_vars

C7_Witness ==
  /\ last.happened
  /\ ActiveOnboarding(last.contextIn)
  /\ last.message = <<"I","'","m"," ","a","t"," ","t","h","e"," ","g","y","m">>
  /\ FindByTelegramId(users, last.userId) # {}
  /\ last.ran = {"onboarding"}

\* C8: while the stored conversation of a user has a pending schedule-change
\* confirmation, a turn of that user is handled by the confirmation branch and
\* by no other dispatch branch, whatever the message and currentActivity.
C8_PendingConfirmationHandledFirst ==
  [][ ( /\ last'.happened
        /\ ~ActiveOnboarding(last'.contextIn)
        /\ connected
        /\ CallerProfiles # {}
        /\ PendingConfirmation.pending )
      => /\ last'.branch \in {"confirmation", "error"}
         /\ last'.ran \subseteq {"confirmation"} ]_vars

\* a turn the workout tracker handled while the confirmation stayed pending
C8_Witness ==
  /\ last.happened
  /\ last.branch = "workout"
  /\ last.message = <<"I","'","m"," ","a","t"," ","t","h","e"," ","g","y","m">>
  /\ last.context.sessionData.scheduleChangeConfirmation.pending
  /\ PendingConfirmation.pending

\* C9: for a known user without a pending confirmation, a message that is a
\* schedule-change statement against the stored hours stages a pending
\* confirmation and is not handled by the workout tracker.
C9_ScheduleChangeBeforeWorkout ==
  [][ ( /\ last'.happened
        /\ ~ActiveOnboarding(last'.contextIn)
        /\ connected
        /\ CallerProfiles # {}
        /\ ~PendingConfirmation.pending
        /\ \A u \in CallerProfiles :
              QualifiesAsScheduleChange(last'.message, u.schedule.availableHours) )
      => /\ last'.branch \in {"detection", "error"}
         /\ "workout" \notin last'.ran
         /\ last'.branch = "detection" => PendingConfirmation'.pending ]_vars

\* "my gym time is 7 pm" against 17:00-21:00: handled by the workout tracker,
\* nothing staged
C9_Witness ==
  /\ last.happened
  /\ last.branch = "workout"
  /\ last.message = <<"m","y"," ","g","y","m"," ","t","i","m","e"," ","i","s"," ","7"," ","p","m">>
  /\ \A u \in CallerProfiles :
        QualifiesAsScheduleChange(last.message, u.schedule.availableHours)
  /\ ~PendingConfirmation.pending
  /\ CallerProfiles # {}

\* C10: the turn in which schedule-change detection fires only stages
\* {pending: true, newTime, previousTime} in the session data of the
\* conversation and asks for confirmation; the stored profiles are unchanged
\* and updateUserSchedule is not called.
C10_DetectionOnlyStages ==
  [][ ( /\ last'.happened
        /\ last'.branch = "detection" )
      => /\ users' = users
         /\ last'.calls.updateSchedule = 0
         /\ last'.calls.createUser = 0
         /\ last'.reply = "confirm_schedule_change?"
         /\ \A u \in CallerProfiles :
              /\ PendingConfirmation' =
                    [pending      |-> TRUE,
                     newTime      |-> AI[last'.message].detectGymTimeChange[
                                         u.schedule.availableHours],
                     previousTime |-> FormattedSlots[u.schedule.availableHours]]
              /\ PendingConfirmation'.newTime # PendingConfirmation'.previousTime
         /\ last'.context.sessionData.scheduleChangeConfirmation = PendingConfirmation'
         /\ CallerConversation'.messages = CallerConversation.messages
         /\ CallerConversation'.context =
              [(IF CallerConversation.stored THEN CallerConversation.context
                ELSE last'.context)
                 EXCEPT !.sessionData.scheduleChangeConfirmation = PendingConfirmation'] ]_vars

C10_Witness ==
  /\ last.happened
  /\ last.branch = "detection"
  /\ last.calls.updateSchedule = 0
  /\ PendingConfirmation.pending
  /\ PendingConfirmation.newTime = <<"i"," ","c","h","a","n","g","e","d"," ","t","o"," ","e","v","e","n","i","n","g">>
  /\ \A u \in CallerProfiles : u.schedule = ExistingUser.schedule

\* C11: a yes that directly follows the turn that staged a schedule change, in
\* a turn that succeeds, stores as the profile's time window the slot the
\* onboarding mapping (parseGymTime) gives for the staged text, and clears the
\* pending flag.
C11_ConfirmedChangeStoresCanonicalWindow ==
  [][ ( /\ last.happened
        /\ last.branch = "detection"
        /\ last'.happened
        /\ AI[last'.message].parseYesNo = "true"
        /\ last'.success )
      => /\ \A u \in CallerProfiles' :
              u.schedule.availableHours = Onboarding[PendingConfirmation.newTime].parseGymTime
         /\ ~PendingConfirmation'.pending ]_vars

\* "i changed to 7" staged and confirmed: 07:00-09:00 is stored, where the
\* onboarding mapping of the staged text is the default 18:00-20:00
C11_Witness ==
  /\ last.happened
  /\ last.branch = "confirmation"
  /\ last.message = <<"y","e","s">>
  /\ last.reply = "schedule_updated"
  /\ ~PendingConfirmation.pending
  /\ \A u \in CallerProfiles : u.schedule.availableHours = <<Slot(7, 9)>>
  /\ Onboarding[<<"i"," ","c","h","a","n","g","e","d"," ","t","o"," ","7">>].parseGymTime = <<Slot(18, 20)>>
  /\ CallerProfiles # {}

\* C12: a no that directly follows the turn that staged a schedule change
\* leaves the stored profiles unchanged, calls no profile write, and discards
\* the staged change: no confirmation is pending afterwards, in the stored
\* conversation and in the returned context.
C12_DeclinedChangeLeavesSchedule ==
  [][ ( /\ last.happened
        /\ last.branch = "detection"
        /\ last'.happened
        /\ AI[last'.message].parseYesNo = "false" )
      => /\ last'.success
         /\ last'.reply = "schedule_kept"
         /\ users' = users
         /\ last'.calls.updateSchedule = 0
         /\ last'.calls.createUser = 0
         /\ PendingConfirmation' = NoConfirmation
         /\ last'.context.sessionData.scheduleChangeConfirmation = NoConfirmation ]_vars

C12_Witness ==
  /\ last.happened
  /\ last.message = <<"n","o">>
  /\ last.reply = "schedule_kept"
  /\ last.calls.updateSchedule = 0
  /\ CallerConversation.stored
  /\ ~PendingConfirmation.pending
  /\ users = {ExistingUser}

\* C13: while the stored conversation of a known user has a pending
\* confirmation, a reply that parses as neither yes nor no is answered by the
\* confirmation question again; the staged newTime and previousTime and the
\* pending flag are unchanged and so are the stored profiles.
C13_UnparseableReplyReasks ==
  [][ ( /\ last'.happened
        /\ ~ActiveOnboarding(last'.contextIn)
        /\ connected
        /\ CallerProfiles # {}
        /\ PendingConfirmation.pending
        /\ AI[last'.message].parseYesNo = "null" )
      => /\ last'.success
         /\ last'.branch = "confirmation"
         /\ last'.reply = "confirm_schedule_change?"
         /\ PendingConfirmation' = PendingConfirmation
         /\ last'.context.sessionData.scheduleChangeConfirmation = PendingConfirmation
         /\ users' = users
         /\ last'.calls.updateSchedule = 0 ]_vars

\* "hello" during a workout session with a change pending: answered by the
\* workout tracker, no confirmation question
C13_Witness ==
  /\ last.happened
  /\ last.message = <<"h","e","l","l","o">>
  /\ AI[last.message].parseYesNo = "null"
  /\ last.branch = "workout"
  /\ last.reply # "confirm_schedule_change?"
  /\ PendingConfirmation.pending
  /\ last.contextIn.sessionData.scheduleChangeConfirmation.pending

\* the yes-tokens and no-tokens both parsers list, and the tokens only the
\* schedule negotiator lists
YesTokens == {<<"y","e","s">>, <<"y">>, <<"y","e","a","h">>, <<"y","e","p">>, <<"s","u","r","e">>, <<"o","k">>, <<"o","k","a","y">>, <<"c","o","r","r","e","c","t">>, <<"r","i","g","h","t">>, <<"t","r","u","e">>}
NoTokens == {<<"n","o">>, <<"n">>, <<"n","o","p","e">>, <<"n","a","h">>, <<"w","r","o","n","g">>, <<"i","n","c","o","r","r","e","c","t">>, <<"f","a","l","s","e">>}
NegotiatorYesTokens == {<<"u","p","d","a","t","e">>, <<"c","h","a","n","g","e">>}
NegotiatorNoTokens == {<<"k","e","e","p">>, <<"m","a","i","n","t","a","i","n">>, <<"p","r","e","v","i","o","u","s">>}

\* the verdict on an input, given the token lists: the lower-cased, trimmed
\* input is one of the tokens
Verdict(input, yes, no) ==
  IF trim(toLowerCase(input)) \in yes THEN "true"
  ELSE IF trim(toLowerCase(input)) \in no THEN "false"
  ELSE "null"

\* replies the parsers are probed with, besides the texts of the model
YesNoProbes ==
  Texts \cup YesTokens \cup NoTokens \cup NegotiatorYesTokens \cup NegotiatorNoTokens
    \cup {<<"Y","E","S">>, <<" ","y","e","s"," ">>, <<"O","k","a","y">>, <<" ","N","o">>, <<"N","O","P","E">>, <<"y","e","s"," ","p","l","e","a","s","e">>, <<"n","o","t"," ","s","u","r","e">>, <<"y","e","s","s">>, <<"k">>, <<"n","e","v","e","r">>, <<"u","p","d","a","t","e","d">>, <<"k","e","e","p"," ","i","t">>}

\* both parsers on every probe, computed once
YesNoParsed ==
  [t \in YesNoProbes |-> [onboarding |-> parseYesNo(t), negotiator |-> parseYesNoAI(t)]]

\* the verdicts the token lists give on every probe, computed once
Verdicts ==
  [t \in YesNoProbes |->
     [canonical  |-> Verdict(t, YesTokens, NoTokens),
      negotiator |-> Verdict(t, YesTokens \cup NegotiatorYesTokens,
                                NoTokens \cup NegotiatorNoTokens)]]

\* each parser agrees with its token lists on every probe
ParsersFollowTheirLists ==
  \A t \in YesNoProbes :
     /\ YesNoParsed[t].onboarding = Verdicts[t].canonical
     /\ YesNoParsed[t].negotiator = Verdicts[t].negotiator

\* the onboarding steps that parse a yes/no answer
YesNoSteps == {"has_timetable", "confirm_schedule"}

CompleteTuple(message) ==
  /\ ~AI[message].mentionsGym
  /\ Len(AI[message].extractExerciseInfo.exercise) # 0
  /\ AI[message].extractExerciseInfo.sets # 0
  /\ AI[message].extractExerciseInfo.reps # 0

\* the session data of the stored conversation of the client
StoredSession == CallerConversation.context.sessionData

\* C15: a turn of the workout tracker whose message yields a complete tuple
\* leaves, in the stored conversation and in the returned context,
\* exercisesLogged equal to its previous value followed by exactly that tuple
\* (exercise, sets, reps, weight) and currentExercise cleared; every entry of
\* exercisesLogged is such a tuple.
C15_CompleteTupleIsLogged ==
  [][ ( /\ last'.happened
        /\ last'.branch = "workout"
        /\ connected
        /\ CompleteTuple(last'.message) )
      => /\ StoredSession'.exercisesLogged =
              Append(StoredSession.exercisesLogged,
                     ExerciseTuple(AI[last'.message].extractExerciseInfo.exercise,
                                   AI[last'.message].extractExerciseInfo.sets,
                                   AI[last'.message].extractExerciseInfo.reps,
                                   AI[last'.message].extractExerciseInfo.weight))
         /\ last'.context.sessionData.exercisesLogged = StoredSession'.exercisesLogged
         /\ StoredSession'.currentExercise = <<>>
         /\ \A i \in 1..Len(StoredSession'.exercisesLogged) :
               StoredSession'.exercisesLogged[i].kind = "tuple" ]_vars

\* "bench press 3 sets of 10 reps" in a session: what the conversation holds
\* afterwards is the tracker's response object, not the tuple
C15_Witness ==
  /\ last.happened
  /\ last.branch = "workout"
  /\ last.message = <<"b","e","n","c","h"," ","p","r","e","s","s"," ","3"," ","s","e","t","s"," ","o","f"," ","1","0"," ","r","e","p","s">>
  /\ CompleteTuple(last.message)
  /\ Len(StoredSession.exercisesLogged) = 1
  /\ StoredSession.exercisesLogged[1].kind = "response"
  /\ last.context.sessionData.exercisesLogged = StoredSession.exercisesLogged

\* the message names an exercise for the workout tracker and lacks sets or reps
NamesExerciseOnly(message) ==
  /\ ~AI[message].mentionsGym
  /\ Len(AI[message].extractExerciseInfo.exercise) # 0
  /\ (AI[message].extractExerciseInfo.sets = 0 \/ AI[message].extractExerciseInfo.reps = 0)

\* C16: a turn of the workout tracker whose message names an exercise without
\* sets and reps leaves that name in currentExercise of the stored
\* conversation; and when the next turn of the tracker gives only sets and reps,
\* it appends the tuple of the staged name with these sets and reps to
\* exercisesLogged.
C16_StagedExerciseIsCompleted ==
  [][ /\ ( /\ last'.happened
           /\ last'.branch = "workout"
           /\ connected
           /\ NamesExerciseOnly(last'.message) )
         => StoredSession'.currentExercise = AI[last'.message].extractExerciseInfo.exercise
      /\ ( /\ last.happened
           /\ last.branch = "workout"
           /\ NamesExerciseOnly(last.message)
           /\ last'.happened
           /\ last'.branch = "workout"
           /\ connected
           /\ ~AI[last'.message].mentionsGym
           /\ Len(AI[last'.message].extractExerciseInfo.exercise) = 0
           /\ AI[last'.message].extractExerciseInfo.sets # 0
           /\ AI[last'.message].extractExerciseInfo.reps # 0 )
         => StoredSession'.exercisesLogged =
              Append(StoredSession.exercisesLogged,
                     ExerciseTuple(AI[last.message].extractExerciseInfo.exercise,
                                   AI[last'.message].extractExerciseInfo.sets,
                                   AI[last'.message].extractExerciseInfo.reps,
                                   AI[last'.message].extractExerciseInfo.weight)) ]_vars

\* "squat" in a session: the stored conversation holds no currentExercise when
\* the turn has ended
C16_Witness ==
  /\ last.happened
  /\ last.branch = "workout"
  /\ last.message = <<"s","q","u","a","t">>
  /\ NamesExerciseOnly(last.message)
  /\ CallerConversation.stored
  /\ StoredSession.currentExercise = <<>>
  /\ StoredSession.exercisesLogged = <<>>

\* C17: a successful turn of a known user whose stored conversation has
\* currentActivity = workout, with a message the intent classifier maps from
\* workout to another activity, returns and stores a context whose
\* currentActivity is not workout.
C17_UserCanLeaveWorkout ==
  [][ ( /\ last'.happened
        /\ ~ActiveOnboarding(last'.contextIn)
        /\ connected
        /\ CallerProfiles # {}
        /\ CallerConversation.stored
        /\ CallerConversation.context.currentActivity = "workout"
        /\ AI[last'.message].newActivity["workout"] # "workout"
        /\ last'.success )
      => /\ last'.context.currentActivity # "workout"
         /\ CallerConversation'.context.currentActivity # "workout" ]_vars

\* "what should i eat" in a session: answered by the workout tracker, the
\* activity stays workout
C17_Witness ==
  /\ last.happened
  /\ last.message = <<"w","h","a","t"," ","s","h","o","u","l","d"," ","i"," ","e","a","t">>
  /\ AI[last.message].newActivity["workout"] = "meal_planning"
  /\ last.branch = "workout"
  /\ last.context.currentActivity = "workout"
  /\ CallerConversation.context.currentActivity = "workout"

\* lowerMessage.includes('gym') && (includes('find') || includes('location'))
GymSearchWording(message) ==
  /\ includes(toLowerCase(message), <<"g","y","m">>)
  /\ \/ includes(toLowerCase(message), <<"f","i","n","d">>)
     \/ includes(toLowerCase(message), <<"l","o","c","a","t","i","o","n">>)

\* C18: a turn that classifies the intent of a message containing "gym"
\* together with "find" or "location" returns currentActivity = gym_search.
C18_GymSearchOverridesWorkout ==
  [][ ( /\ last'.happened
        /\ last'.branch = "chat"
        /\ GymSearchWording(last'.message) )
      => /\ last'.context.currentActivity = "gym_search"
         /\ \A a \in Activities : AI[last'.message].newActivity[a] = "gym_search" ]_vars

\* "find a gym" classified in default chat: the activity is workout
C18_Witness ==
  /\ last.happened
  /\ last.branch = "chat"
  /\ last.message = <<"f","i","n","d"," ","a"," ","g","y","m">>
  /\ GymSearchWording(last.message)
  /\ last.context.currentActivity = "workout"

\* the classifier keywords
ClassifierKeywords == {<<"g","y","m">>, <<"w","o","r","k","o","u","t">>, <<"e","x","e","r","c","i","s","e">>, <<"f","o","o","d">>, <<"e","a","t">>, <<"m","e","a","l">>}

\* the texts of the model that contain no classifier keyword
NoKeywordTexts ==
  {t \in Texts : \A k \in ClassifierKeywords : ~includes(toLowerCase(t), k)}

\* the classifier leaves every activity as it is on every such text
StickyOnEveryText ==
  \A t \in NoKeywordTexts : \A a \in Activities : AI[t].newActivity[a] = a

\* the context of the conversation a turn of a known user works on: the
\* stored one, or the one created from the supplied context
TurnContext(contextIn) ==
  IF CallerConversation.stored THEN CallerConversation.context
  ELSE IF contextIn.present THEN contextIn
  ELSE DefaultContext

\* C19: for every current activity and every message without a classifier
\* keyword the classifier returns the current activity; the turn that
\* classifies such a message returns the activity and the session data of the
\* conversation unchanged.
C19_ClassificationIsSticky ==
  [][ /\ StickyOnEveryText
      /\ ( /\ last'.happened
           /\ last'.branch = "chat"
           /\ last'.message \in NoKeywordTexts )
         => /\ last'.context.currentActivity =
                 TurnContext(last'.contextIn).currentActivity
            /\ last'.context.sessionData = TurnContext(last'.contextIn).sessionData
            /\ CallerConversation'.stored
                 => /\ CallerConversation'.context.currentActivity =
                         TurnContext(last'.contextIn).currentActivity
                    /\ CallerConversation'.context.sessionData =
                         TurnContext(last'.contextIn).sessionData ]_vars

\* "hello" after a meal question: the activity is still meal_planning
C19_Witness ==
  /\ last.happened
  /\ last.branch = "chat"
  /\ last.message = <<"h","e","l","l","o">>
  /\ last.message \in NoKeywordTexts
  /\ last.context.currentActivity = "meal_planning"
  /\ CallerConversation.context.currentActivity = "meal_planning"

CannedApologies == {"llm:fallback", "trouble_understanding"}

\* C21: a default-chat turn of a known user, with the database connected, in
\* which the LLM call fails returns a failure response with a canned apology,
\* and the user message of the turn is in the stored conversation afterwards.
C21_FailedLlmTurnIsRecorded ==
  [][ ( /\ last'.happened
        /\ connected
        /\ "chat" \in last'.ran
        /\ failing \in {"llm.request", "llm.reject"} )
      => /\ ~last'.success
         /\ last'.reply \in CannedApologies
         /\ CallerConversation'.stored
         /\ \E i \in 1..Len(CallerConversation'.messages) :
               /\ i > Len(CallerConversation.messages)
               /\ CallerConversation'.messages[i] = Message("user", last'.message) ]_vars

\* "hello" with a client that rejects: a failure response, and the stored
\* conversation holds none of the messages of the turn
C21_Witness ==
  /\ last.happened
  /\ failing = "llm.reject"
  /\ last.message = <<"h","e","l","l","o">>
  /\ last.ran = {"chat"}
  /\ last.branch = "error"
  /\ ~last.success
  /\ last.reply = "trouble_understanding"
  /\ CallerConversation.stored
  /\ CallerConversation.messages = <<>>

\* C22: every call of processMessage, for every user id, message, context
\* and rejecting collaborator, returns a response to its caller: a success
\* with a message or a failure with a user-facing message; no error leaves it.
C22_EveryTurnAnswers ==
  [][ last'.happened
      => /\ last'.branch # "thrown"
         /\ last'.reply \notin {"", "none"}
         /\ ~last'.success =>
               \/ last'.branch = "onboarding"
               \/ last'.reply \in {"set_up_profile_first", "trouble_understanding",
                                   "trouble_updating_schedule"} ]_vars

\* a turn in which saving the conversation rejects answers with the apology
C22_Witness ==
  /\ last.happened
  /\ failing = "conv.save"
  /\ last.branch = "error"
  /\ ~last.success
  /\ last.reply = "trouble_understanding"

\* C23: a turn that reaches user resolution with a well-formed internal id
\* for which no profile is found fails with the set-up-your-profile message;
\* it starts no onboarding, calls no collaborator that writes, and leaves the
\* users and the conversations as they were.
C23_UnknownInternalIdFails ==
  [][ ( /\ last'.happened
        /\ caller \in ObjectIds
        /\ ~ActiveOnboarding(last'.contextIn)
        /\ (FindById(users, caller) = {} \/ ~UsersAnswer(connected, failing)) )
      => /\ ~last'.success
         /\ last'.reply = "set_up_profile_first"
         /\ last'.branch = "error"
         /\ last'.ran = {}
         /\ ~last'.context.present
         /\ last'.onboardingStep = "none"
         /\ last'.calls = NoCalls
         /\ users' = users
         /\ convs' = convs ]_vars

\* the id oid9, which no profile has, with the database connected
C23_Witness ==
  /\ last.happened
  /\ caller = "oid9"
  /\ connected
  /\ ~last.success
  /\ last.reply = "set_up_profile_first"
  /\ users = {ExistingUser}
  /\ convs = {}

NamesNoWindow(timeStr) ==
  LET lower == toLowerCase(timeStr)
  IN ~ \/ includes(lower, <<"m","o","r","n","i","n","g">>) \/ includes(lower, <<"a","m">>)
       \/ includes(lower, <<"a","f","t","e","r","n","o","o","n">>)
       \/ includes(lower, <<"e","v","e","n","i","n","g">>) \/ includes(lower, <<"n","i","g","h","t">>)
       \/ includes(lower, <<"p","m">>)
       \/ includes(lower, <<"a","f","t","e","r"," ","w","o","r","k">>)

\* the four windows: morning, afternoon, evening / night, after work
CanonicalWindows == {<<Slot(6, 10)>>, <<Slot(12, 16)>>, <<Slot(17, 21)>>, <<Slot(17, 20)>>}

\* C25: the time window a turn stores in a profile, at the end of onboarding
\* from the gym-time answer and in a confirmed schedule change from the
\* staged text, is one of the four canonical windows, and is the evening
\* window 17:00-21:00 when the text names no window.
C25_GymTimeMapsToCanonicalWindow ==
  [][ \A u \in users' :
        ( /\ last'.happened
          /\ \A v \in users : v.id = u.id => v.schedule.availableHours # u.schedule.availableHours )
        => LET timeStr == IF last'.calls.updateSchedule > 0
                            THEN PendingConfirmation.newTime
                            ELSE OnboardingIn(last').data.gymTime
           IN /\ u.schedule.availableHours \in CanonicalWindows
              /\ NamesNoWindow(timeStr) => u.schedule.availableHours = <<Slot(17, 21)>> ]_vars

\* onboarding with the gym time "7": the profile is created with the window
\* 18:00-20:00, which is none of the four
C25_Witness ==
  /\ last.happened
  /\ last.calls.createUser = 1
  /\ OnboardingIn(last).data.gymTime = <<"7">>
  /\ \E u \in users : u.telegramId = caller /\ u.schedule.availableHours = <<Slot(18, 20)>>

\* the texts of the model that hold a time expression: a number of one or
\* two digits (the time pattern) or one of the time descriptions
TimedTexts ==
  {t \in Texts :
     \/ FirstNumberAt(toLowerCase(trim(t))) # 0
     \/ \E d \in {<<"m","o","r","n","i","n","g">>, <<"a","f","t","e","r","n","o","o","n">>,
                   <<"e","v","e","n","i","n","g">>, <<"n","i","g","h","t">>,
                   <<"a","f","t","e","r"," ","w","o","r","k">>,
                   <<"b","e","f","o","r","e"," ","w","o","r","k">>} :
           includes(toLowerCase(trim(t)), d)}

\* the texts of the model that hold a scheduling keyword
KeywordTexts ==
  {t \in Texts : \E k \in 1..Len(TimeKeywords) : includes(toLowerCase(t), TimeKeywords[k])}

\* C26: a turn stages a pending schedule-change confirmation only for a
\* message that holds a scheduling keyword and a time expression; a message
\* with a keyword and no time expression ("what is my schedule") stages none.
C26_DetectionNeedsTimeExpression ==
  [][ ( /\ last'.happened
        /\ last'.branch = "detection" )
      => /\ last'.message \in KeywordTexts
         /\ last'.message \in TimedTexts ]_vars

\* "what is my schedule" staged as the new gym time
C26_Witness ==
  /\ last.happened
  /\ last.branch = "detection"
  /\ last.success
  /\ last.message = <<"w","h","a","t"," ","i","s"," ","m","y"," ","s","c","h","e","d","u","l","e">>
  /\ last.message \notin TimedTexts
  /\ PendingConfirmation.pending
  /\ PendingConfirmation.newTime = last.message

\* the messages of the model that state sets and reps in one of the two
\* forms, with the numbers N and M they state
StatedSetsReps ==
  {<<<<"b","e","n","c","h"," ","p","r","e","s","s"," ","3"," ","s","e","t","s"," ","o","f"," ","1","0"," ","r","e","p","s">>, 3, 10>>,
   <<<<"3"," ","s","e","t","s"," ","o","f"," ","1","0"," ","r","e","p","s">>, 3, 10>>,
   <<<<"s","q","u","a","t"," ","3","x","1","0">>, 3, 10>>}

\* C27: in a turn handled by the workout session, a message that states
\* "<N> sets (of) <M> reps" or "<N>x<M>" is extracted with sets = N and
\* reps = M.
C27_BothSetsRepsFormsExtracted ==
  [][ \A e \in StatedSetsReps :
        ( /\ last'.happened
          /\ "workout" \in last'.ran
          /\ last'.message = e[1] )
        => /\ AI[e[1]].extractExerciseInfo.sets = e[2]
           /\ AI[e[1]].extractExerciseInfo.reps = e[3] ]_vars

\* "squat 3x10" in a workout turn: the exercise is found, sets and reps are
\* undefined
C27_Witness ==
  /\ last.happened
  /\ "workout" \in last.ran
  /\ last.message = <<"s","q","u","a","t"," ","3","x","1","0">>
  /\ AI[last.message].extractExerciseInfo.exercise = <<"s","q","u","a","t">>
  /\ AI[last.message].extractExerciseInfo.sets = 0
  /\ AI[last.message].extractExerciseInfo.reps = 0

\* C28: with the database connected, getConversationHistory(userId, limit)
\* returns for every limit >= 0 the last min(limit, n) of the n stored
\* messages of the user, in their order, and the empty list when the user
\* has no conversation.
C28_HistoryIsLastLimitMessages ==
  [][ ( /\ last'.via = "history"
        /\ connected )
      => LET messages == CallerConversation.messages
             n == Len(messages)
             k == IF last'.limit < n THEN last'.limit ELSE n
         IN /\ last'.success
            /\ last'.history = SubSeq(messages, n - k + 1, n)
            /\ Len(last'.history) <= last'.limit ]_vars

\* limit 0 on a conversation of two messages: both are returned
C28_Witness ==
  /\ last.via = "history"
  /\ last.limit = 0
  /\ last.success
  /\ Len(CallerConversation.messages) = 2
  /\ last.history = CallerConversation.messages

\* C29: when two default-chat turns of one user both load the conversation
\* before either saves and both return success, the stored message list is
\* afterwards the loaded list followed by the two messages of the turn that
\* saved last, and by nothing of the other turn.
C29_LaterWriteWins ==
  ( /\ \A p \in Procs : racing.turn[p].pc = "done" /\ racing.turn[p].success
    /\ racing.turn[1].conversation = racing.turn[2].conversation )
  => LET winner == racing.turn[racing.saved[Len(racing.saved)]]
     IN CallerConversation.messages =
          winner.conversation.messages
            \o <<Message("user", winner.message), Message("assistant", winner.reply)>>

\* "hello" and "what should i eat" in flight together, "hello" saved last:
\* both returned success and "what should i eat" is not in the stored list
C29_Witness ==
  /\ \A p \in Procs : racing.turn[p].pc = "done" /\ racing.turn[p].success
  /\ racing.turn[1].conversation = racing.turn[2].conversation
  /\ racing.saved = <<2, 1>>
  /\ racing.turn[1].message = <<"h","e","l","l","o">>
  /\ racing.turn[2].message = <<"w","h","a","t"," ","s","h","o","u","l","d"," ","i"," ","e","a","t">>
  /\ Len(CallerConversation.messages) = Len(racing.turn[1].conversation.messages) + 2
  /\ \A i \in 1..Len(CallerConversation.messages) :
        CallerConversation.messages[i] # Message("user", racing.turn[2].message)

\* C30: in one call of processMessage at most one of the onboarding,
\* workout, pending-confirmation, schedule-detection and default-chat
\* branches runs, also when the branch that ran reports a failure.
C30_OneBranchPerTurn ==
  [][ last'.happened => Cardinality(last'.ran) <= 1 ]_vars

\* "I'm at the gym" with an LLM client that rejects: the workout session
\* called the LLM and failed, then default chat ran on the same message,
\* called the LLM again and failed
C30_Witness ==
  /\ last.happened
  /\ failing = "llm.reject"
  /\ last.message = <<"I","'","m"," ","a","t"," ","t","h","e"," ","g","y","m">>
  /\ last.ran = {"workout", "chat"}
  /\ ~last.success
  /\ last.calls.llm = 2

\* C31: a turn on a conversation that is already stored (so that the turn
\* inserts none) writes the conversation record at most once, whichever
\* branch handles it.
C31_OneSavePerTurn ==
  [][ ( /\ last'.happened
        /\ CallerConversation.stored )
      => last'.calls.convWrites <= 1 ]_vars

\* "bench press 3 sets of 10 reps" in a workout session: the workout session
\* saves the staged name, saves the logged tuple, and processMessage saves
\* its own copy
C31_Witness ==
  /\ last.happened
  /\ last.success
  /\ last.branch = "workout"
  /\ last.message = <<"b","e","n","c","h"," ","p","r","e","s","s"," ","3"," ","s","e","t","s"," ","o","f"," ","1","0"," ","r","e","p","s">>
  /\ last.calls.convWrites = 3

\* C32: with the database connected, a turn that succeeds in the onboarding
\* branch (a step that advances), the workout branch, the schedule-detection
\* branch, or the confirmation branch with a yes or a no appends its user
\* message to the stored message list of the conversation.
C32_EveryBranchRecordsTheTurn ==
  [][ ( /\ last'.happened
        /\ connected
        /\ last'.success
        /\ \/ last'.branch \in {"onboarding", "workout", "detection"}
           \/ last'.reply \in {"schedule_updated", "schedule_kept"} )
      => \E i \in 1..Len(CallerConversation'.messages) :
            /\ i > Len(CallerConversation.messages)
            /\ CallerConversation'.messages[i] = Message("user", last'.message) ]_vars

\* "I'm at the gym" answered by the workout session: the conversation is
\* stored with the workout context and an empty message list
C32_Witness ==
  /\ last.happened
  /\ connected
  /\ last.success
  /\ last.branch = "workout"
  /\ last.message = <<"I","'","m"," ","a","t"," ","t","h","e"," ","g","y","m">>
  /\ CallerConversation.stored
  /\ CallerConversation.context.currentActivity = "workout"
  /\ CallerConversation.messages = <<>>

\* C33: in the stored conversation of the client and in the context the last
\* turn returned, an activity of workout comes with no pending schedule
\* confirmation and no onboarding state, and workout session data (a session
\* id or logged exercises) comes with the activity workout.
C33_ActivityMatchesSessionData ==
  \A c \in {CallerConversation.context, last.context} :
     /\ c.currentActivity = "workout"
          => /\ ~c.sessionData.scheduleChangeConfirmation.pending
             /\ ~c.sessionData.onboardingState.present
     /\ (c.sessionData.sessionId # "none" \/ Len(c.sessionData.exercisesLogged) # 0)
          => c.currentActivity = "workout"

\* "what is my schedule" staged a change, then "I'm at the gym" started a
\* workout: the stored context is a workout with the confirmation pending
C33_Witness ==
  /\ last.happened
  /\ failing = "none"
  /\ last.branch = "workout"
  /\ last.success
  /\ CallerConversation.context.currentActivity = "workout"
  /\ CallerConversation.context.sessionData.sessionId # "none"
  /\ CallerConversation.context.sessionData.scheduleChangeConfirmation.pending

\* C34: in a default-chat turn the conversation history passed to the LLM
\* has at most 10 entries, and they are the last entries, in their order, of
\* the message list the turn holds: the stored messages followed by the user
\* message of the turn.
C34_LlmGetsLastTenMessages ==
  [][ ( /\ last'.happened
        /\ "chat" \in last'.ran )
      => LET list == Append(CallerConversation.messages, Message("user", last'.message))
             n    == Len(list)
             k    == IF n < 10 THEN n ELSE 10
         IN /\ Len(last'.llmRequest.history) <= 10
            /\ last'.llmRequest.history = SubSeq(list, n - k + 1, n) ]_vars

\* a turn on twelve stored messages: the history is cut to ten entries, the
\* first of which is the fourth stored message
C34_Witness ==
  /\ last.happened
  /\ last.branch = "chat"
  /\ Len(CallerConversation.messages) = 14
  /\ Len(last.llmRequest.history) = 10
  /\ last.llmRequest.history[1] = CallerConversation.messages[4]
  /\ last.llmRequest.history[10] = Message("user", last.message)

\* C35: once onboarding has created the profile of the client, no later turn
\* of the client that sends back the context it holds invokes profile
\* creation or is handled by the onboarding state machine.
C35_ProfileCreatedOnce ==
  [][ ( /\ last'.happened
        /\ last'.via = "api"
        /\ CreatedInRun )
      => /\ last'.calls.createUser = 0
         /\ last'.calls.onboardingSteps = 0
         /\ last'.branch # "onboarding" ]_vars

\* a second "yes" with the context of the turn that created the profile:
\* the onboarding state machine runs at confirm_schedule and calls createUser
\* again, which the unique index on telegramId rejects
C35_Witness ==
  /\ last.happened
  /\ last.via = "api"
  /\ followUps >= 1
  /\ last.branch = "onboarding"
  /\ OnboardingIn(last).step = "confirm_schedule"
  /\ last.message = <<"y","e","s">>
  /\ last.calls.createUser = 1
  /\ ~last.success
  /\ Cardinality(FindByTelegramId(users, caller)) = 1

\* C36: with the profile store answering and no profile of the client
\* stored yet, a yes at confirm_schedule creates the profile: the values the
\* height and weight steps accepted pass the validation of createUser.
C36_ConfirmedRunCreatesProfile ==
  [][ ( /\ last'.happened
        /\ ActiveOnboarding(last'.contextIn)
        /\ OnboardingIn(last').step = "confirm_schedule"
        /\ Onboarding[last'.message].parseYesNo = "true"
        /\ UsersAnswer(connected, failing)
        /\ failing # "users.insert"
        /\ FindByTelegramId(users, caller) = {} )
      => /\ last'.success
         /\ FindByTelegramId(users', caller) # {} ]_vars

\* the height step accepted "300 cm"; the yes at confirm_schedule calls
\* createUser, validation rejects the height, and no profile is stored
C36_Witness ==
  /\ last.happened
  /\ connected
  /\ failing = "none"
  /\ OnboardingIn(last).step = "confirm_schedule"
  /\ OnboardingIn(last).data.height = 300
  /\ last.message = <<"y","e","s">>
  /\ last.calls.createUser = 1
  /\ ~last.success
  /\ FindByTelegramId(users, caller) = {}

\* C37: every text message that reaches processMessage through the Telegram
\* text handler while the Telegram user has no profile is answered by the
\* unknown-identity branch with onboarding step name and empty data; the
\* onboarding state machine is not invoked and no profile is created.
C37_TelegramOnboardingNeverProgresses ==
  [][ ( /\ last'.happened
        /\ last'.via = "telegram"
        /\ FindByTelegramId(users, caller) = {} )
      => /\ last'.branch = "start_onboarding"
         /\ last'.onboardingStep = "name"
         /\ OnboardingOut(last') = OnbState("name", EmptyData)
         /\ last'.calls.onboardingSteps = 0
         /\ last'.calls.createUser = 0
         /\ users' = users ]_vars

\* "John" sent through Telegram by a client that was already asked for its
\* name: it is asked again
C37_Witness ==
  /\ last.happened
  /\ last.via = "telegram"
  /\ last.message = <<"J","o","h","n">>
  /\ ~last.contextIn.present
  /\ last.branch = "start_onboarding"
  /\ last.onboardingStep = "name"
  /\ FindByTelegramId(users, caller) = {}

\* C38: in a default-chat turn the messages of the request sent to the LLM
\* contain the user message of the turn exactly once.
C38_RequestHoldsMessageOnce ==
  [][ ( /\ last'.happened
        /\ last'.branch = "chat"
        /\ last'.calls.llm > 0 )
      => Cardinality({ i \in DOMAIN last'.llmRequest.messages :
                         last'.llmRequest.messages[i]
                           = Message("user", last'.message) }) = 1 ]_vars

\* "hello" as the first message of a conversation: the request is the system
\* prompt followed by "hello" twice
C38_Witness ==
  /\ last.happened
  /\ last.branch = "chat"
  /\ last.success
  /\ last.message = <<"h","e","l","l","o">>
  /\ Len(CallerConversation.messages) = 2
  /\ last.llmRequest.messages
       = << Message("system", "prompt"),
            Message("user", <<"h","e","l","l","o">>),
            Message("user", <<"h","e","l","l","o">>) >>

C40_MessageHandledOnce ==
  [][ /\ (bot'.inbound = bot.inbound + 1 /\ bot.isRunning)
         => (bot'.handled = 1 /\ bot'.replies = 1)
      /\ (bot'.startCalls = bot.startCalls + 1 /\ bot.isRunning)
         => bot' = [bot EXCEPT !.startCalls = @ + 1] ]_vars

\* start, stop, start, then a text message: two listeners, two processMessage
\* calls and two replies for the one message
C40_Witness ==
  /\ bot.isRunning
  /\ bot.startCalls = 2
  /\ bot.listeners = 2
  /\ bot.inbound = 1
  /\ bot.handled = 2
  /\ bot.replies = 2

====
